---- MODULE Spec2Model ----
(***************************************************************************)
(* Model of reolink-aio-ts: the Baichuan TCP framer, pending-request table *)
(* and SoftwareVersion (src/src/baichuan/tcp-protocol.ts), the XOR stream  *)
(* cipher (src/src/exceptions/index.ts), send, login, their mutexes and    *)
(* the logout of Host (src/src/enums/index.ts), the template renderer      *)
(* (src/src/baichuan/xmls.ts), the Cache (src/src/utils/index.ts) and the  *)
(* RequestBatcher (src/src/utils/request-batcher.ts).                      *)
(***************************************************************************)
EXTENDS Integers, Sequences, FiniteSets, TLC

VARIABLES
    \* BaichuanTcpClientProtocol
    data,            \* this.data: the receive buffer, a sequence of bytes
    receiveFutures,  \* this.receiveFutures: <<cmdId, messId>> -> promise index
    promises,        \* every promise made by waitForResponse, in creation order
    pushCallback,    \* the constructor's pushCallback: "none", "ok", or
                     \* "throws" (a callback that raises an exception)
    events,          \* what the framer did with the messages it cut (observer)
    ret,             \* what the last waitForResponse call returned (observer)
    sock,            \* the socket: "none", "open", "destroying", "errored",
                     \* "closed"
    closeCalls,      \* number of closeCallback invocations
    wire,            \* bytes of a frame the peer wrote that are yet to arrive
    \* framing experiment: one byte stream fed in chunks
    stream, pos,
    \* cipher experiment
    cBody, cKey, cEnc, cDec, cPc,
    cDecKey,         \* the identifier handed to decryptBaichuan
    \* Host: login mutex
    loginMutex,      \* this.loginMutex: index of the current mutex promise
    mutexResolved,   \* the mutex promises already resolved
    mutexCount,      \* number of mutex promises created so far
    token,           \* this.token is set (SpecLogin: with a valid lease)
    caller,          \* each login() caller: its position and awaited promise
    \* Host: logout
    leaseTime,       \* this.leaseTime is set
    subscribed,      \* this.baichuan.subscribedValue
    loPc,            \* where the running logout() call is: "idle" when none
    loLast,          \* the last operation of Host that completed
    loCalls,         \* number of logout() calls made so far
    loSent,          \* the requests logout() calls have issued, in order
    \* buildBaichuanXml experiment
    fmtTemplate, fmtParams, fmtOut, fmtPc,
    \* Cache
    cache,           \* this.cache: the Map's entries in insertion order
    maxSize,         \* this.maxSize
    defaultTtl,      \* this.defaultTtl
    now,             \* Date.now()
    cacheRet,        \* the last Cache call and what it returned (observer)
    recency,         \* keys in order of last use, oldest first (observer)
    \* RequestBatcher
    queue,           \* this.queue: the queued requests (indices in requests)
    timer,           \* this.timer is set: the flush timer is pending
    flushHandler,    \* this.flushHandler is set
    enabled,         \* this.enabled
    maxBatchSize,    \* this.maxBatchSize
    requests,        \* the promise of every request made by add(), in order
    batches,         \* every batch handed to the flush handler, in order
    \* Host.send
    sendMutex,       \* this.sendMutex: index of the current mutex promise
    sendResolved,    \* the send mutex promises already resolved
    sendCount,       \* number of send mutex promises created so far
    lease,           \* this.leaseTime against the clock: "none" (null),
                     \* "fresh" (more than 5 minutes left), "soon" (less
                     \* than 5 minutes left) or "expired"
    posts,           \* what the last step posted, or how the call it ended
                     \* has ended (observer)
    \* SoftwareVersion comparison experiment
    verA, verB,      \* two SoftwareVersion objects
    verOut           \* what the comparisons of verA and verB returned

protoVars  == <<data, receiveFutures, promises, pushCallback, events, ret,
                sock, closeCalls, wire>>
framerVars == <<stream, pos>>
cipherVars == <<cBody, cKey, cEnc, cDec, cPc, cDecKey>>
loginVars  == <<loginMutex, mutexResolved, mutexCount, token, caller>>
logoutVars == <<leaseTime, subscribed, loPc, loLast, loCalls, loSent>>
fmtVars    == <<fmtTemplate, fmtParams, fmtOut, fmtPc>>
cacheVars  == <<cache, maxSize, defaultTtl, now, cacheRet, recency>>
batchVars  == <<queue, timer, flushHandler, enabled, maxBatchSize, requests,
                batches>>
sendVars   == <<sendMutex, sendResolved, sendCount, lease, posts>>
verVars    == <<verA, verB, verOut>>
moreVars   == <<sendVars, verVars>>
extVars    == <<logoutVars, fmtVars, cacheVars, batchVars, moreVars>>
vars == <<protoVars, framerVars, cipherVars, loginVars, extVars>>

----------------------------------------------------------------------------
(* Bytes and buffers                                                       *)

Byte == 0..255

\* HEADER_MAGIC = "f0debc0a"
HEADER_MAGIC == <<240, 222, 188, 10>>

\* Buffer.slice(0, n)
Take(buf, n) == SubSeq(buf, 1, IF n < Len(buf) THEN n ELSE Len(buf))

\* Buffer.slice(n)
Drop(buf, n) == SubSeq(buf, n + 1, Len(buf))

\* The largest value the model's integers hold; a 32-bit field at or above
\* 2^31 reads as this value (no key or length of the model is that large).
U32Top == 2147483647

\* Buffer.readUInt32LE(off)
ReadUInt32LE(buf, off) ==
    IF buf[off + 4] >= 128 THEN U32Top
    ELSE buf[off + 1] + 256 * buf[off + 2] + 65536 * buf[off + 3]
         + 16777216 * buf[off + 4]

\* Buffer.readUInt16LE(off)
ReadUInt16LE(buf, off) == buf[off + 1] + 256 * buf[off + 2]

\* headerBytes.slice(0, d.length).equals(d)
IsMagicPrefix(d) == d = Take(HEADER_MAGIC, Len(d))

LE16(n) == <<n % 256, (n \div 256) % 256>>
LE32(n) == <<n % 256, (n \div 256) % 256, (n \div 65536) % 256,
             (n \div 16777216) % 256>>

\* message classes, bytes 18..19 of the header
Class1466 == <<20, 102>>
Class1464 == <<20, 100>>
Class0000 == <<0, 0>>
Class1465 == <<20, 101>>

\* A frame as the parser reads it: magic, cmd id, body length, mess id,
\* status code, message class, (24-byte header only) payload offset, body.
BuildFrame(cmdId, messId, status, class, payloadOffset, body) ==
    HEADER_MAGIC \o LE32(cmdId) \o LE32(Len(body)) \o LE32(messId)
    \o LE16(status) \o class
    \o (IF class \in {Class1464, Class0000} THEN LE32(payloadOffset) ELSE <<>>)
    \o body

----------------------------------------------------------------------------
(* Promises of the pending table                                           *)

NoErr == [cls |-> "none", rspCode |-> 0]
Err(cls) == [cls |-> cls, rspCode |-> 0]

NewPromise(cmdId, messId) ==
    [cmd |-> cmdId, mess |-> messId, state |-> "pending", val |-> <<>>,
     err |-> NoErr]

\* future.resolve(val): a settled promise ignores it
Resolve(prom, p, val) ==
    IF prom[p].state = "pending"
    THEN [prom EXCEPT ![p] = [@ EXCEPT !.state = "resolved", !.val = val]]
    ELSE prom

\* future.reject(err): a settled promise ignores it
Reject(prom, p, err) ==
    IF prom[p].state = "pending"
    THEN [prom EXCEPT ![p] = [@ EXCEPT !.state = "rejected", !.err = err]]
    ELSE prom

RECURSIVE RejectAll(_, _, _)
RejectAll(prom, ps, err) ==
    IF ps = {} THEN prom
    ELSE LET p == CHOOSE x \in ps : TRUE
         IN RejectAll(Reject(prom, p, err), ps \ {p}, err)

\* this.receiveFutures.has(cmdId)
HasCmd(rf, cmdId) == \E k \in DOMAIN rf : k[1] = cmdId

\* mutant of GetFuture: the lookup ignores the identifier
GetFutureAnyMess(rf, cmdId, messId) ==
    IF HasCmd(rf, cmdId)
    THEN rf[CHOOSE k \in DOMAIN rf : k[1] = cmdId]
    ELSE 0

\* this.receiveFutures.get(cmdId)?.get(messId), 0 when undefined
GetFuture(rf, cmdId, messId) ==
    IF <<cmdId, messId>> \in DOMAIN rf THEN rf[<<cmdId, messId>>] ELSE 0

----------------------------------------------------------------------------
(* The framer: handleData, parseData, setError                             *)

\* One thing the framer did with a message: "resolve", "reject", "push"
\* (the push callback was called), "drop" (unmatched, no callback),
\* "error" (setError) or "caught" (handleData caught an exception). p is
\* the promise it acted on (0: none) and prior that promise's state before.
Ev(kind, cmdId, messId, lenHeader, chunk, p, prior, cls) ==
    [kind |-> kind, cmd |-> cmdId, mess |-> messId, lenHeader |-> lenHeader,
     chunk |-> chunk, p |-> p, prior |-> prior, cls |-> cls]

PriorOf(prom, p) == IF p = 0 THEN "none" ELSE prom[p].state

\* cmdId / messId left undefined by the caller of setError
Undefined == -1

\* mutant of SetError: the buffer is emptied and the error logged, no
\* request is rejected
SetErrorLogsOnly(st, rf, excClass, cmdId, messId) ==
    [st EXCEPT
       !.data = <<>>,
       !.events = Append(st.events,
                         Ev("error", cmdId, messId, 0, <<>>, 0, "none",
                            excClass))]

\* setError(errMess, excClass, cmdId, messId)
SetError(st, rf, excClass, cmdId, messId) ==
    LET hit == IF DOMAIN rf # {} /\ (cmdId = Undefined \/ HasCmd(rf, cmdId))
               THEN IF cmdId = Undefined
                    THEN {rf[k] : k \in DOMAIN rf}
                    ELSE IF messId = Undefined
                            \/ <<cmdId, messId>> \notin DOMAIN rf
                    THEN {rf[k] : k \in {j \in DOMAIN rf : j[1] = cmdId}}
                    ELSE {rf[<<cmdId, messId>>]}
               ELSE {}
    IN [st EXCEPT
          !.data = <<>>,
          !.promises = RejectAll(st.promises, hit, Err(excClass)),
          !.events = Append(st.events,
                            Ev("error", cmdId, messId, 0, <<>>, 0, "none",
                               excClass))]

\* The status-code branch of parseData (lines 196-211): the error a
\* non-200/300 status rejects the matching request with.
StatusError(recStatusCode) ==
    [cls |-> "ApiError", rspCode |-> recStatusCode]

\* mutant of Dispatch: a message that answers a request is passed to the
\* push callback as well
DispatchPushesAll(st, rf, push, recCmdId, recMessId, lenHeader) ==
    LET receiveFuture == GetFuture(rf, recCmdId, recMessId)
        recStatusCode == ReadUInt16LE(st.dataChunk, 16)
        prior == PriorOf(st.promises, receiveFuture)
        pushed == Ev(IF push # "none" THEN "push" ELSE "drop", recCmdId,
                     recMessId, lenHeader, st.dataChunk, 0, "none", "none")
    IN IF lenHeader = 24 /\ recStatusCode # 200 /\ recStatusCode # 300
       THEN IF receiveFuture # 0
            THEN [st EXCEPT
                    !.promises = Reject(st.promises, receiveFuture,
                                        StatusError(recStatusCode)),
                    !.events = Append(st.events,
                        Ev("reject", recCmdId, recMessId, lenHeader,
                           st.dataChunk, receiveFuture, prior, "ApiError"))]
            ELSE [st EXCEPT
                    !.events = Append(st.events,
                        Ev("drop", recCmdId, recMessId, lenHeader,
                           st.dataChunk, 0, "none", "none"))]
       ELSE IF receiveFuture = 0
       THEN [st EXCEPT !.events = Append(st.events, pushed),
                       !.exc = (st.exc \/ push = "throws")]
       ELSE [st EXCEPT
               !.promises = Resolve(st.promises, receiveFuture,
                                    <<st.dataChunk, lenHeader>>),
               !.events = Append(Append(st.events,
                   Ev("resolve", recCmdId, recMessId, lenHeader,
                      st.dataChunk, receiveFuture, prior, "none")), pushed),
               !.exc = (st.exc \/ push = "throws")]

\* parseData lines 190-228: what happens to the message just cut
Dispatch(st, rf, push, recCmdId, recMessId, lenHeader) ==
    LET receiveFuture == GetFuture(rf, recCmdId, recMessId)
        recStatusCode == ReadUInt16LE(st.dataChunk, 16)
        prior == PriorOf(st.promises, receiveFuture)
    IN IF lenHeader = 24 /\ recStatusCode # 200 /\ recStatusCode # 300
       THEN IF receiveFuture # 0
            THEN [st EXCEPT
                    !.promises = Reject(st.promises, receiveFuture,
                                        StatusError(recStatusCode)),
                    !.events = Append(st.events,
                        Ev("reject", recCmdId, recMessId, lenHeader,
                           st.dataChunk, receiveFuture, prior, "ApiError"))]
            ELSE [st EXCEPT
                    !.events = Append(st.events,
                        Ev("drop", recCmdId, recMessId, lenHeader,
                           st.dataChunk, 0, "none", "none"))]
       ELSE IF receiveFuture = 0
       THEN [st EXCEPT
               !.events = Append(st.events,
                   Ev(IF push # "none" THEN "push" ELSE "drop", recCmdId,
                      recMessId, lenHeader, st.dataChunk, 0, "none", "none")),
               !.exc = (st.exc \/ push = "throws")]
       ELSE [st EXCEPT
               !.promises = Resolve(st.promises, receiveFuture,
                                    <<st.dataChunk, lenHeader>>),
               !.events = Append(st.events,
                   Ev("resolve", recCmdId, recMessId, lenHeader,
                      st.dataChunk, receiveFuture, prior, "none"))]

RECURSIVE ParseData(_, _, _)

\* mutant of ParseNext: the remainder of the buffer is left unparsed
ParseNextStops(st, rf, push) == st

\* parseData lines 229-248: the finally block
ParseNext(st, rf, push) ==
    IF Len(st.data) > 0
    THEN IF Take(st.data, 4) = HEADER_MAGIC
         THEN ParseData(st, rf, push)
         ELSE IF Len(st.data) < 4 /\ IsMagicPrefix(st.data)
         THEN st
         ELSE [st EXCEPT !.data = <<>>]
    ELSE st

\* parseData lines 172-188, then dispatch and the finally block
CutMessage(st, rf, push, recCmdId, recLenBody, recMessId, lenHeader) ==
    LET lenBody == Len(st.data) - lenHeader
        lenChunk == recLenBody + lenHeader
    IN IF lenBody < recLenBody
       THEN st
       ELSE ParseNext(
              Dispatch([st EXCEPT !.dataChunk = Take(st.data, lenChunk),
                                  !.data = Drop(st.data, lenChunk)],
                       rf, push, recCmdId, recMessId, lenHeader),
              rf, push)

\* mutant of IsExtended: every tag but the compact one
IsExtendedAnyTag(messClass) == messClass # Class1466

\* parseData line 150: messClass === "1464" || messClass === "0000"
IsExtended(messClass) == messClass = Class1464 \/ messClass = Class0000

\* parseData()
ParseData(st, rf, push) ==
    IF Len(st.data) < 20
    THEN st
    ELSE LET recCmdId == ReadUInt32LE(st.data, 4)
             recLenBody == ReadUInt32LE(st.data, 8)
             recMessId == ReadUInt32LE(st.data, 12)
             messClass == SubSeq(st.data, 19, 20)
         IN IF messClass = Class1466
            THEN CutMessage(st, rf, push, recCmdId, recLenBody, recMessId, 20)
            ELSE IF IsExtended(messClass)
            THEN IF Len(st.data) < 24
                 THEN st
                 ELSE IF ReadUInt32LE(st.data, 20) # 0
                 THEN SetError(st, rf, "InvalidContentTypeError", recCmdId,
                               recMessId)
                 ELSE CutMessage(st, rf, push, recCmdId, recLenBody,
                                 recMessId, 24)
            ELSE SetError(st, rf, "InvalidContentTypeError", recCmdId,
                          recMessId)

\* mutant of Catch: no catch block, the exception leaves handleData
CatchNothing(st) ==
    IF st.exc
    THEN [st EXCEPT !.exc = FALSE,
                    !.events = Append(st.events,
                        Ev("escaped", 0, 0, 0, <<>>, 0, "none", "none"))]
    ELSE st

\* handleData lines 108-130: try { parseData() } catch: an exception
\* raised under parseData (exc) is logged and the buffer is emptied
Catch(st) ==
    IF st.exc
    THEN [st EXCEPT !.exc = FALSE,
                    !.data = <<>>,
                    !.events = Append(st.events,
                        Ev("caught", 0, 0, 0, <<>>, 0, "none", "none"))]
    ELSE st

\* handleData(chunk)
HandleData(st, rf, push, chunk) ==
    IF Take(chunk, 4) = HEADER_MAGIC
    THEN Catch(ParseData([st EXCEPT !.data = chunk], rf, push))
    ELSE IF Len(st.data) > 0
    THEN Catch(ParseData([st EXCEPT !.data = st.data \o chunk], rf, push))
    ELSE IF Len(chunk) < 4 /\ IsMagicPrefix(chunk)
    THEN [st EXCEPT !.data = chunk]
    ELSE SetError(st, rf, "UnexpectedDataError", Undefined, Undefined)

\* the framer's part of the state, as HandleData takes and returns it.
\* this.dataChunk is written by parseData before every read of it, and what
\* it holds between two calls is read only to format a log line, so it is a
\* field of this record and not a variable.
FramerState(prom, evs) ==
    [data |-> data, dataChunk |-> <<>>, promises |-> prom, events |-> evs,
     exc |-> FALSE]

----------------------------------------------------------------------------
(* Bounds and the inputs drawn under them                                  *)

\* frames in one stream of the framing experiment
MaxStreamFrames == 2
\* promises one run creates
MaxPromises == 2

\* (command id, identifier) keys that callers wait on: 250 addresses the
\* host; <<1, 0>> is a key nobody waits on (same command id as KeyA)
KeyA == <<1, 250>>
KeyB == <<2, 0>>
Keys == {KeyA, KeyB}

\* well-formed frames of the framing experiment: both header variants,
\* success and error statuses, empty bodies and a body that holds the bytes
\* of the magic constant
FramerFrames ==
    { BuildFrame(1, 250, 0, Class1466, 0, <<>>),
      BuildFrame(1, 250, 401, Class1464, 0, HEADER_MAGIC),
      BuildFrame(2, 0, 200, Class1464, 0, <<7>>),
      BuildFrame(1, 0, 0, Class1466, 0, HEADER_MAGIC) }

RECURSIVE Streams(_)
Streams(n) ==
    IF n = 0 THEN {<<>>}
    ELSE LET shorter == Streams(n - 1)
         IN shorter \cup {s \o f : s \in shorter, f \in FramerFrames}

\* the pending table with one pending request per key of ks
RECURSIVE TableOf(_)
TableOf(ks) ==
    IF ks = {} THEN [rf |-> <<>>, prom |-> <<>>]
    ELSE LET k == CHOOSE x \in ks : TRUE
             rest == TableOf(ks \ {k})
         IN [rf |-> (rest.rf @@ (k :> Len(rest.prom) + 1)),
             prom |-> Append(rest.prom, NewPromise(k[1], k[2]))]

NoRet == [p |-> 0, joined |-> FALSE]

FramerIdle == stream = <<>> /\ pos = 0
CipherIdle ==
    /\ cBody = <<>> /\ cKey = 0 /\ cEnc = <<>> /\ cDec = <<>> /\ cPc = "idle"
    /\ cDecKey = 0
LogoutIdle ==
    /\ leaseTime = FALSE /\ subscribed = FALSE /\ loPc = "idle"
    /\ loLast = "none" /\ loCalls = 0 /\ loSent = <<>>
FmtIdle ==
    fmtTemplate = <<>> /\ fmtParams = <<>> /\ fmtOut = <<>> /\ fmtPc = "idle"
CacheIdle ==
    /\ cache = <<>> /\ maxSize = 0 /\ defaultTtl = 0 /\ now = 0
    /\ cacheRet = <<>> /\ recency = <<>>
BatchIdle ==
    /\ queue = <<>> /\ timer = FALSE /\ flushHandler = FALSE
    /\ enabled = FALSE /\ maxBatchSize = 0 /\ requests = <<>>
    /\ batches = <<>>
SendIdle ==
    /\ sendMutex = 0 /\ sendResolved = {} /\ sendCount = 0
    /\ lease = "none" /\ posts = <<>>
VerIdle == verA = <<>> /\ verB = <<>> /\ verOut = <<>>
MoreIdle == SendIdle /\ VerIdle
ExtIdle == LogoutIdle /\ FmtIdle /\ CacheIdle /\ BatchIdle /\ MoreIdle
ProtoIdle ==
    /\ data = <<>> /\ receiveFutures = <<>> /\ promises = <<>>
    /\ events = <<>> /\ ret = NoRet /\ pushCallback = "none"
    /\ sock = "none" /\ closeCalls = 0 /\ wire = <<>>
LoginIdle ==
    /\ loginMutex = 0 /\ mutexResolved = {} /\ mutexCount = 0
    /\ token = FALSE /\ caller = <<>>

----------------------------------------------------------------------------
(* SpecFramer: one byte stream of whole frames, fed to handleData in       *)
(* chunks cut at arbitrary places, against a fixed pending table.          *)

InitFramer ==
    /\ stream \in (Streams(MaxStreamFrames) \ {<<>>})
    /\ pos = 0
    /\ \E ks \in {{}, {KeyA}, {KeyA, KeyB}} :
          /\ receiveFutures = TableOf(ks).rf
          /\ promises = TableOf(ks).prom
    /\ pushCallback \in {"none", "ok"}
    /\ data = <<>> /\ events = <<>> /\ ret = NoRet
    /\ sock = "open" /\ closeCalls = 0 /\ wire = <<>>
    /\ CipherIdle /\ LoginIdle /\ ExtIdle

\* socket.on("data"): the next n bytes of the stream arrive as one chunk
Feed(n) ==
    /\ pos + n <= Len(stream)
    /\ LET st == HandleData(FramerState(promises, events), receiveFutures,
                            pushCallback, SubSeq(stream, pos + 1, pos + n))
       IN /\ data' = st.data
          /\ promises' = st.promises
          /\ events' = st.events
    /\ pos' = pos + n
    /\ UNCHANGED <<receiveFutures, pushCallback, ret, sock, closeCalls, wire,
                   stream, cipherVars, loginVars, extVars>>

NextFramer == \E n \in 1..(Len(stream) - pos) : Feed(n)

SpecFramer == InitFramer /\ [][NextFramer]_vars

\* the same stream fed in one call, from the same pending table
OneCall ==
    HandleData([data |-> <<>>, dataChunk |-> <<>>, exc |-> FALSE,
                promises |-> [i \in DOMAIN promises |->
                                 NewPromise(promises[i].cmd, promises[i].mess)],
                events |-> <<>>],
               receiveFutures, pushCallback, stream)

\* C1: once every byte of a stream of whole well-formed frames has been
\* fed, in whatever chunks, the framer has dispatched exactly the messages,
\* in the same order and with the same outcomes for the pending requests,
\* that feeding the stream in one call dispatches.
C1_SplitInvariance ==
    pos = Len(stream) =>
        /\ events = OneCall.events
        /\ promises = OneCall.promises

----------------------------------------------------------------------------
(* The pending table: waitForResponse, its timeout, connection loss        *)

\* mutant of WaitForResponse: no lookup of an existing entry, every call
\* makes a promise and stores it under the key
WaitForResponseNoJoin(rf, prom, cmdId, messId) ==
    [rf |-> (<<cmdId, messId>> :> (Len(prom) + 1)) @@ rf,
     prom |-> Append(prom, [cmd |-> cmdId, mess |-> messId,
                            state |-> "pending", val |-> <<>>,
                            err |-> [cls |-> "none", rspCode |-> 0]]),
     ret |-> [p |-> Len(prom) + 1, joined |-> FALSE]]

\* waitForResponse(cmdId, messId): the table, the promises and the promise
\* returned (joined: an entry for the key existed and was returned)
WaitForResponse(rf, prom, cmdId, messId) ==
    IF <<cmdId, messId>> \in DOMAIN rf
    THEN [rf |-> rf, prom |-> prom,
          ret |-> [p |-> rf[<<cmdId, messId>>], joined |-> TRUE]]
    ELSE [rf |-> (<<cmdId, messId>> :> (Len(prom) + 1)) @@ rf,
          prom |-> Append(prom, NewPromise(cmdId, messId)),
          ret |-> [p |-> Len(prom) + 1, joined |-> FALSE]]

\* Map.delete(key)
Without(rf, k) == [j \in DOMAIN rf \ {k} |-> rf[j]]

\* mutant of TimeoutFired: the callback rejects and leaves the entry
TimeoutFiredKeepsEntry(rf, prom, p) ==
    [rf |-> rf, prom |-> Reject(prom, p, Err("ReolinkTimeoutError"))]

\* the setTimeout callback of waitForResponse for promise p
TimeoutFired(rf, prom, p) ==
    [rf |-> Without(rf, <<prom[p].cmd, prom[p].mess>>),
     prom |-> Reject(prom, p, Err("ReolinkTimeoutError"))]

\* the error handleConnectionLost(exc) rejects with: exc is "none" (the
\* 'close' event) or the class of the socket's error (the 'error' event)
ConnectionLostError(exc) ==
    IF exc = "none" THEN Err("ReolinkConnectionError") ELSE Err(exc)

\* handleConnectionLost(exc): the promises after it
HandleConnectionLost(rf, prom, exc) ==
    IF DOMAIN rf # {}
    THEN RejectAll(prom, {rf[k] : k \in DOMAIN rf}, ConnectionLostError(exc))
    ELSE prom

\* frames the peer writes: every status of the extended header, the compact
\* header, for keys that are waited on and for one that is not
ProtoFrames ==
    { BuildFrame(1, 250, 0, Class1466, 0, <<7>>),
      BuildFrame(1, 250, 200, Class1464, 0, <<7>>),
      BuildFrame(1, 250, 300, Class1464, 0, <<>>),
      BuildFrame(1, 250, 401, Class1464, 0, <<>>),
      BuildFrame(1, 250, 500, Class1464, 0, <<>>),
      BuildFrame(2, 0, 200, Class1464, 0, <<7>>),
      BuildFrame(1, 0, 0, Class1466, 0, <<>>) }

\* places inside a frame where a read may end: inside the magic constant
\* and at the end of the compact header
SplitPoints == {2, 20}

\* what one 'data' event may carry when no frame is half-delivered: a
\* whole frame, or two frames
ProtoChunks ==
    ProtoFrames
    \cup {BuildFrame(2, 0, 200, Class1464, 0, <<7>>) \o f : f \in ProtoFrames}

Init ==
    /\ data = <<>> /\ receiveFutures = <<>> /\ promises = <<>>
    /\ events = <<>> /\ ret = NoRet
    /\ pushCallback \in {"none", "ok", "throws"}
    /\ sock = "none" /\ closeCalls = 0 /\ wire = <<>>
    /\ FramerIdle /\ CipherIdle /\ LoginIdle /\ ExtIdle

otherVars == <<framerVars, cipherVars, loginVars, extVars>>

\* connect(socket)
Connect ==
    /\ sock = "none"
    /\ sock' = "open"
    /\ events' = <<>> /\ ret' = NoRet
    /\ UNCHANGED <<data, receiveFutures, promises, pushCallback, closeCalls,
                   wire, otherVars>>

\* a caller registers for the response to key k
CallWaitForResponse(k) ==
    /\ k \in DOMAIN receiveFutures \/ Len(promises) < MaxPromises
    /\ LET r == WaitForResponse(receiveFutures, promises, k[1], k[2])
       IN /\ receiveFutures' = r.rf
          /\ promises' = r.prom
          /\ ret' = r.ret
    /\ events' = <<>>
    /\ UNCHANGED <<data, pushCallback, sock, closeCalls, wire, otherVars>>

\* the timer of a pending request fires (a settled promise has cleared its
\* timer in promise.finally before any timer can run)
Timeout(p) ==
    /\ promises[p].state = "pending"
    /\ LET r == TimeoutFired(receiveFutures, promises, p)
       IN /\ receiveFutures' = r.rf
          /\ promises' = r.prom
    /\ events' = <<>> /\ ret' = NoRet
    /\ UNCHANGED <<data, pushCallback, sock, closeCalls, wire, otherVars>>

Deliver(chunk) ==
    LET st == HandleData(FramerState(promises, <<>>), receiveFutures,
                         pushCallback, chunk)
    IN /\ data' = st.data
       /\ promises' = st.promises
       /\ events' = st.events
       /\ ret' = NoRet

\* socket.on("data"): one or two whole frames arrive in one chunk
SocketData(chunk) ==
    /\ sock = "open"
    /\ wire = <<>>
    /\ Deliver(chunk)
    /\ UNCHANGED <<receiveFutures, pushCallback, sock, closeCalls, wire,
                   otherVars>>

\* socket.on("data"): the read ends inside frame f, c bytes into it
SocketDataStart(f, c) ==
    /\ sock = "open"
    /\ wire = <<>>
    /\ c < Len(f)
    /\ Deliver(Take(f, c))
    /\ wire' = Drop(f, c)
    /\ UNCHANGED <<receiveFutures, pushCallback, sock, closeCalls, otherVars>>

\* socket.on("data"): the rest of the half-delivered frame arrives
SocketDataRest ==
    /\ sock = "open"
    /\ wire # <<>>
    /\ Deliver(wire)
    /\ wire' = <<>>
    /\ UNCHANGED <<receiveFutures, pushCallback, sock, closeCalls, otherVars>>

\* socket.on("error"): the socket fails; its 'close' event follows
SocketError ==
    /\ sock = "open"
    /\ promises' = HandleConnectionLost(receiveFutures, promises, "Error")
    /\ closeCalls' = closeCalls + 1
    /\ sock' = "errored"
    /\ wire' = <<>>
    /\ events' = <<>> /\ ret' = NoRet
    /\ UNCHANGED <<data, receiveFutures, pushCallback, otherVars>>

\* close(): socket.destroy(); the socket's 'close' event follows
Close ==
    /\ sock = "open"
    /\ sock' = "destroying"
    /\ wire' = <<>>
    /\ events' = <<>> /\ ret' = NoRet
    /\ UNCHANGED <<data, receiveFutures, promises, pushCallback, closeCalls,
                   otherVars>>

\* socket.on("close"): after close(), after an error, or when the peer
\* closes the connection
SocketClose ==
    /\ sock \in {"open", "destroying", "errored"}
    /\ promises' = HandleConnectionLost(receiveFutures, promises, "none")
    /\ closeCalls' = closeCalls + 1
    /\ sock' = "closed"
    /\ wire' = <<>>
    /\ events' = <<>> /\ ret' = NoRet
    /\ UNCHANGED <<data, receiveFutures, pushCallback, otherVars>>

Next ==
    \/ Connect
    \/ \E k \in Keys : CallWaitForResponse(k)
    \/ \E p \in DOMAIN promises : Timeout(p)
    \/ \E chunk \in ProtoChunks : SocketData(chunk)
    \/ \E f \in ProtoFrames, c \in SplitPoints : SocketDataStart(f, c)
    \/ SocketDataRest
    \/ SocketError
    \/ Close
    \/ SocketClose

Spec == Init /\ [][Next]_vars

----------------------------------------------------------------------------
(* Claims about the pending table (Spec)                                   *)

KeyOf(pr) == <<pr.cmd, pr.mess>>
InTable(p) ==
    /\ KeyOf(promises[p]) \in DOMAIN receiveFutures
    /\ receiveFutures[KeyOf(promises[p])] = p
TimedOut(p) == promises[p].err.cls = "ReolinkTimeoutError"
EventSet == {events[i] : i \in DOMAIN events}
ChunkKey(chunk) == <<ReadUInt32LE(chunk, 4), ReadUInt32LE(chunk, 12)>>

\* C2: a request whose timer fired is rejected with ReolinkTimeoutError and
\* is no longer in the pending table, and no message dispatched afterwards
\* is delivered to it: a late response for its key finds no entry (or the
\* entry of a newer request) and goes to the push callback or is dropped.
C2_TimeoutCleanup ==
    /\ \A p \in DOMAIN promises :
          TimedOut(p) => promises[p].state = "rejected" /\ ~InTable(p)
    /\ \A e \in EventSet :
          /\ e.p # 0 => ~TimedOut(e.p)
          /\ (e.kind \in {"resolve", "reject", "push", "drop"}
              /\ <<e.cmd, e.mess>> \notin DOMAIN receiveFutures)
                => e.kind \in {"push", "drop"} /\ e.p = 0

\* a response for the key of a timed-out request has just been routed as
\* an unmatched message
C2_Witness ==
    \E p \in DOMAIN promises, e \in EventSet :
        /\ TimedOut(p)
        /\ <<e.cmd, e.mess>> = KeyOf(promises[p])
        /\ e.kind \in {"push", "drop"}
        /\ ReadUInt16LE(e.chunk, 16) = 200

\* C3: every step in which the connection is lost (handleConnectionLost
\* runs, for the 'error' or the 'close' event) leaves every request that
\* was pending rejected with ReolinkConnectionError.
C3_FanOut ==
    [][closeCalls' # closeCalls =>
        \A p \in DOMAIN promises :
            promises[p].state = "pending" =>
                /\ promises'[p].state = "rejected"
                /\ promises'[p].err.cls = "ReolinkConnectionError"]_vars

\* C4: once the connection has ended (the socket's 'close' event has been
\* handled), the close callback has been called exactly once.
C4_CloseOnce == sock = "closed" => closeCalls = 1

\* C5: a response acts only on the request registered under its own
\* (command id, identifier): a resolved request holds a message with its own
\* key, and every request a dispatched message resolved or rejected has the
\* message's key; a request with another key is left as it was.
C5_CorrelationIndependence ==
    /\ \A p \in DOMAIN promises :
          promises[p].state = "resolved" =>
              ChunkKey(promises[p].val[1]) = KeyOf(promises[p])
    /\ \A e \in EventSet :
          e.kind \in {"resolve", "reject"} =>
              /\ KeyOf(promises[e.p]) = <<e.cmd, e.mess>>
              /\ ChunkKey(e.chunk) = <<e.cmd, e.mess>>

\* of two pending requests with different keys, the one registered later
\* has been resolved and the other is still pending
C5_Witness ==
    \E p, q \in DOMAIN promises :
        /\ p < q
        /\ KeyOf(promises[p]) # KeyOf(promises[q])
        /\ promises[p].state = "pending" /\ InTable(p)
        /\ promises[q].state = "resolved"

\* C6: an extended-header message that matches a pending request resolves
\* it when the status is 200 or 300 and rejects it otherwise, and the error
\* for a status other than 401 is of another class than the error for 401.
C6_StatusDispatch ==
    \A e \in EventSet :
        (e.lenHeader = 24 /\ e.p # 0 /\ e.prior = "pending") =>
            LET status == ReadUInt16LE(e.chunk, 16)
            IN IF status \in {200, 300}
               THEN promises[e.p].state = "resolved"
               ELSE /\ promises[e.p].state = "rejected"
                    /\ status # 401 =>
                          promises[e.p].err.cls # StatusError(401).cls

\* C7: no two pending requests share a key, every pending request is the
\* table's entry for its key, and a call that joined returned that entry.
C7_OnePerKey ==
    /\ \A p, q \in DOMAIN promises :
          (p # q /\ KeyOf(promises[p]) = KeyOf(promises[q]))
              => ~(promises[p].state = "pending"
                   /\ promises[q].state = "pending")
    /\ \A p \in DOMAIN promises : promises[p].state = "pending" => InTable(p)
    /\ ret.joined => InTable(ret.p)

\* a second waitForResponse call for a key whose request is pending has
\* just returned the first call's promise
C7_Witness ==
    /\ ret.joined
    /\ promises[ret.p].state = "pending"
    /\ Cardinality({p \in DOMAIN promises :
                       KeyOf(promises[p]) = KeyOf(promises[ret.p])}) = 1

\* C8: a settled request (resolved, rejected or timed out) has no entry in
\* the pending table.
C8_RemovedWhenSettled ==
    \A p \in DOMAIN promises : promises[p].state # "pending" => ~InTable(p)

----------------------------------------------------------------------------
(* SpecContain: the framing experiment with a push callback that may       *)
(* raise an exception and with a frame the framer rejects.                 *)

\* an unmatched push message, a response to KeyA, and a frame with the
\* legacy frame-type tag whose key nobody waits on
ContainFrames ==
    { BuildFrame(1, 0, 0, Class1466, 0, <<7>>),
      BuildFrame(1, 250, 200, Class1464, 0, <<>>),
      BuildFrame(1, 0, 0, Class1465, 0, <<7>>) }

RECURSIVE StreamsOf(_, _)
StreamsOf(n, frames) ==
    IF n = 0 THEN {<<>>}
    ELSE LET shorter == StreamsOf(n - 1, frames)
         IN shorter \cup {s \o f : s \in shorter, f \in frames}

InitContain ==
    /\ stream \in (StreamsOf(MaxStreamFrames, ContainFrames) \ {<<>>})
    /\ pos = 0
    /\ \E ks \in {{}, {KeyA}, {KeyA, KeyB}} :
          /\ receiveFutures = TableOf(ks).rf
          /\ promises = TableOf(ks).prom
    /\ pushCallback \in {"none", "ok", "throws"}
    /\ data = <<>> /\ events = <<>> /\ ret = NoRet
    /\ sock = "open" /\ closeCalls = 0 /\ wire = <<>>
    /\ CipherIdle /\ LoginIdle /\ ExtIdle

SpecContain == InitContain /\ [][NextFramer]_vars

\* chunk is exactly one complete message that parseData accepts
IsWholeFrame(chunk) ==
    /\ Len(chunk) >= 20
    /\ Take(chunk, 4) = HEADER_MAGIC
    /\ LET messClass == SubSeq(chunk, 19, 20)
           recLenBody == ReadUInt32LE(chunk, 8)
       IN \/ messClass = Class1466 /\ Len(chunk) = 20 + recLenBody
          \/ /\ messClass \in {Class1464, Class0000}
             /\ Len(chunk) >= 24
             /\ ReadUInt32LE(chunk, 20) = 0
             /\ Len(chunk) = 24 + recLenBody

\* the status of a complete message is a success status (a message with
\* the compact header has no status)
SuccessStatus(chunk, lenHeader) ==
    lenHeader = 20 \/ ReadUInt16LE(chunk, 16) \in {200, 300}

\* what parseData does with the complete message chunk
ExpectedKind(chunk) ==
    LET lenHeader == IF SubSeq(chunk, 19, 20) = Class1466 THEN 20 ELSE 24
    IN IF ChunkKey(chunk) \in DOMAIN receiveFutures
       THEN IF SuccessStatus(chunk, lenHeader) THEN "resolve" ELSE "reject"
       ELSE IF SuccessStatus(chunk, lenHeader) /\ pushCallback # "none"
       THEN "push"
       ELSE "drop"

\* the events the step has appended
NewEvents == {events'[i] : i \in (Len(events) + 1)..Len(events')}

\* C15: an exception raised while the framer processes a message never
\* leaves handleData; the call that caught one ends with an empty buffer;
\* and every handleData call whose chunk is one complete well-formed
\* message dispatches that message, whatever happened in earlier calls.
C15_ErrorContainment ==
    [][ /\ \A e \in NewEvents : e.kind # "escaped"
        /\ (\E e \in NewEvents : e.kind = "caught") => data' = <<>>
        /\ LET chunk == SubSeq(stream, pos + 1, pos')
           IN IsWholeFrame(chunk) =>
                 \E e \in NewEvents :
                    e.chunk = chunk /\ e.kind = ExpectedKind(chunk) ]_vars

\* the push callback raised an exception in one handleData call, and a
\* later call resolved the pending request its message answers
C15_Witness ==
    /\ pos = Len(stream)
    /\ data = <<>>
    /\ \E i, j \in DOMAIN events :
          /\ i < j
          /\ events[i].kind = "caught"
          /\ events[j].kind = "resolve" /\ events[j].prior = "pending"

\* C16: a request rejected because of a framer-level parse error has the
\* key of the message that failed to parse (requests with other keys stay
\* pending), and a complete well-formed message received in a later call
\* is dispatched.
C16_ParseErrorIsLocal ==
    [][ /\ \A p \in DOMAIN promises :
              (promises[p].state = "pending" /\ promises'[p].state = "rejected")
                  => \E e \in NewEvents :
                        \/ e.kind = "reject" /\ e.p = p
                        \/ e.kind = "error" /\ <<e.cmd, e.mess>>
                                                  = KeyOf(promises[p])
        /\ LET chunk == SubSeq(stream, pos + 1, pos')
           IN IsWholeFrame(chunk) =>
                 \E e \in NewEvents :
                    e.chunk = chunk /\ e.kind = ExpectedKind(chunk) ]_vars

----------------------------------------------------------------------------
(* The XOR stream cipher: encryptBaichuan, decryptBaichuan                 *)

\* bytes of a body in the cipher experiment
MaxBodyLen == 3
CipherBytes == {0, 90, 128, 255}

\* XML_KEY = [0x1f, 0x2d, 0x3c, 0x4b, 0x5a, 0x69, 0x78, 0xff]
XML_KEY == <<31, 45, 60, 75, 90, 105, 120, 255>>

\* a ^ b on non-negative integers
RECURSIVE BitXor(_, _)
BitXor(a, b) ==
    IF a = 0 THEN b
    ELSE IF b = 0 THEN a
    ELSE (((a % 2) + (b % 2)) % 2) + 2 * BitXor(a \div 2, b \div 2)

\* mutant of DecryptBaichuan: the key index is not advanced by the offset
DecryptBaichuanKeyFromZero(buf, offset) ==
    [i \in 1..Len(buf) |->
        BitXor(BitXor(buf[i], XML_KEY[((i - 1) % Len(XML_KEY)) + 1]),
               offset % 256)]

\* mutant of DecryptBaichuan: the identifier is not reduced modulo 256
DecryptBaichuanNoReduce(buf, offset) ==
    [i \in 1..Len(buf) |->
        BitXor(BitXor(buf[i],
                      XML_KEY[((offset + i - 1) % Len(XML_KEY)) + 1]),
               offset)]

\* mutant of DecryptBaichuan: the identifier is reduced modulo the key length
DecryptBaichuanModKeyLength(buf, offset) ==
    LET off == offset % Len(XML_KEY)
    IN [i \in 1..Len(buf) |->
           BitXor(BitXor(buf[i], XML_KEY[((off + i - 1) % Len(XML_KEY)) + 1]),
                  off)]

\* decryptBaichuan(buf, offset): the char codes of the string returned
DecryptBaichuan(buf, offset) ==
    LET off == offset % 256
    IN [i \in 1..Len(buf) |->
           BitXor(BitXor(buf[i], XML_KEY[((off + i - 1) % Len(XML_KEY)) + 1]),
                  off)]

\* mutant of EncryptBaichuan: the key index is not advanced by the offset
EncryptBaichuanKeyFromZero(buf, offset) ==
    [i \in 1..Len(buf) |->
        BitXor(BitXor(buf[i], XML_KEY[((i - 1) % Len(XML_KEY)) + 1]),
               offset) % 256]

\* encryptBaichuan(buf, offset) for offset <= 255: the bytes of the Buffer
\* (a Buffer element keeps the low 8 bits of what is stored in it)
EncryptBaichuan(buf, offset) ==
    [i \in 1..Len(buf) |->
        BitXor(BitXor(buf[i], XML_KEY[((offset + i - 1) % Len(XML_KEY)) + 1]),
               offset) % 256]

RECURSIVE Bodies(_)
Bodies(n) ==
    IF n = 0 THEN {<<>>}
    ELSE LET shorter == Bodies(n - 1)
         IN shorter \cup {Append(b, c) : b \in shorter, c \in CipherBytes}

InitCipher ==
    /\ cBody \in Bodies(MaxBodyLen)
    /\ cKey \in 0..255
    /\ cDecKey = cKey
    /\ cEnc = <<>> /\ cDec = <<>> /\ cPc = "plain"
    /\ data = <<>> /\ receiveFutures = <<>> /\ promises = <<>>
    /\ events = <<>> /\ ret = NoRet /\ pushCallback = "none"
    /\ sock = "none" /\ closeCalls = 0 /\ wire = <<>>
    /\ FramerIdle /\ LoginIdle /\ ExtIdle

\* encryptBaichuan(cBody, cKey)
Encrypt ==
    /\ cPc = "plain"
    /\ cEnc' = EncryptBaichuan(cBody, cKey)
    /\ cPc' = "encrypted"
    /\ UNCHANGED <<cBody, cKey, cDec, cDecKey, protoVars, framerVars,
                   loginVars, extVars>>

\* decryptBaichuan(cEnc, cKey)
Decrypt ==
    /\ cPc = "encrypted"
    /\ cDec' = DecryptBaichuan(cEnc, cKey)
    /\ cPc' = "decrypted"
    /\ UNCHANGED <<cBody, cKey, cEnc, cDecKey, protoVars, framerVars,
                   loginVars, extVars>>

NextCipher == Encrypt \/ Decrypt

SpecCipher == InitCipher /\ [][NextCipher]_vars

\* C10: for every identifier in 0..255 and every body of bytes, the empty
\* one included, decrypting the encrypted body with the same identifier
\* gives the body back.
C10_RoundTrip == cPc = "decrypted" => cDec = cBody

\* a non-empty body that encryption changed has been decrypted
C10_Witness ==
    /\ cPc = "decrypted"
    /\ Len(cBody) = MaxBodyLen
    /\ cEnc # cBody
    /\ cKey = 255

----------------------------------------------------------------------------
(* The cipher with identifiers of any size and with a second identifier    *)

\* identifiers handed to encryptBaichuan: 0..255 and values above 255
MaxIdentifier == 515

\* bytes of a body in this experiment
CodecBytes == {0, 65}

RECURSIVE BodiesOver(_, _)
BodiesOver(n, bytes) ==
    IF n = 0 THEN {<<>>}
    ELSE LET shorter == BodiesOver(n - 1, bytes)
         IN shorter \cup {Append(b, c) : b \in shorter, c \in bytes}

\* mutant of EncryptThrows: the bound is off by one
EncryptThrowsAbove256(offset) == offset > 256

\* encryptBaichuan: if (offset > 255) throw new InvalidParameterError
EncryptThrows(offset) == offset > 255

InitCodec ==
    /\ cBody \in BodiesOver(MaxBodyLen, CodecBytes)
    /\ cKey \in 0..MaxIdentifier
    /\ cDecKey = 0
    /\ cEnc = <<>> /\ cDec = <<>> /\ cPc = "plain"
    /\ ProtoIdle /\ FramerIdle /\ LoginIdle /\ ExtIdle

\* encryptBaichuan(cBody, cKey): throws, or returns the encrypted Buffer
EncryptAny ==
    /\ cPc = "plain"
    /\ IF EncryptThrows(cKey)
       THEN cPc' = "InvalidParameterError" /\ cEnc' = cEnc
       ELSE cPc' = "encrypted" /\ cEnc' = EncryptBaichuan(cBody, cKey)
    /\ UNCHANGED <<cBody, cKey, cDec, cDecKey, protoVars, framerVars,
                   loginVars, extVars>>

\* decryptBaichuan(cEnc, k2) with any identifier k2 in 0..255, or with the
\* encryption identifier plus 256
DecryptWith(k2) ==
    /\ cPc = "encrypted"
    /\ cDecKey' = k2
    /\ cDec' = DecryptBaichuan(cEnc, k2)
    /\ cPc' = "decrypted"
    /\ UNCHANGED <<cBody, cKey, cEnc, protoVars, framerVars, loginVars,
                   extVars>>

NextCodec ==
    \/ EncryptAny
    \/ \E k2 \in 0..255 : DecryptWith(k2)
    \/ DecryptWith(cKey + 256)

SpecCodec == InitCodec /\ [][NextCodec]_vars

\* C11: encryptBaichuan throws InvalidParameterError, producing no output,
\* exactly for the identifiers above 255; for an identifier in 0..255 it
\* returns a buffer as long as its input, whatever the input's length.
C11_SendSideBound ==
    cPc # "plain" =>
        /\ cKey > 255 => (cPc = "InvalidParameterError" /\ cEnc = <<>>)
        /\ cKey <= 255 =>
              (cPc \in {"encrypted", "decrypted"} /\ Len(cEnc) = Len(cBody))

\* encryption with identifier 256 has thrown
C11_Witness ==
    cPc = "InvalidParameterError" /\ cKey = 256 /\ Len(cBody) = MaxBodyLen

\* C12: decryptBaichuan with an identifier above 255 returns what it
\* returns with the identifier reduced modulo 256: a result as long as its
\* input, and the plaintext when the identifier is the encryption
\* identifier plus 256.
C12_DecryptTotal ==
    (cPc = "decrypted" /\ cDecKey > 255) =>
        /\ cDec = DecryptBaichuan(cEnc, cDecKey % 256)
        /\ Len(cDec) = Len(cEnc)
        /\ cDecKey = cKey + 256 => cDec = cBody

\* a body that encryption changed has been decrypted with the encryption
\* identifier plus 256
C12_Witness ==
    /\ cPc = "decrypted"
    /\ cDecKey = cKey + 256
    /\ Len(cBody) = MaxBodyLen
    /\ cEnc # cBody

\* C13 as claimed: decrypting a non-empty body with an identifier in 0..255
\* other than the encryption identifier never gives the body back.
C13_WrongKeyDiffers ==
    (cPc = "decrypted" /\ cDecKey <= 255 /\ cDecKey # cKey /\ cBody # <<>>)
        => cDec # cBody

\* C13 as amended: decrypting a body of at least three bytes with an
\* identifier in 0..255 other than the encryption identifier never gives
\* the body back.
C13_WrongKeyDiffersFromThreeBytes ==
    (cPc = "decrypted" /\ cDecKey <= 255 /\ cDecKey # cKey
                       /\ Len(cBody) >= 3)
        => cDec # cBody

\* a three-byte body has been decrypted with identifier 69 after being
\* encrypted with identifier 1, the pair that gives back shorter bodies
C13_Witness ==
    /\ cPc = "decrypted"
    /\ cKey = 1 /\ cDecKey = 69
    /\ Len(cBody) = 3
    /\ SubSeq(cDec, 1, 2) = SubSeq(cBody, 1, 2)

----------------------------------------------------------------------------
(* Host.login: the promise used as a mutex                                 *)

\* callers of login()
NumCallers == 3

Callers == 1..NumCallers

\* a caller awaiting a resolved promise resumes before any I/O event
Resumable(c) ==
    caller[c].pc = "awaitMutex" /\ caller[c].awaits \in mutexResolved

InitLogin ==
    /\ loginMutex = 0               \* Promise.resolve()
    /\ mutexResolved = {0}
    /\ mutexCount = 0
    /\ token = FALSE
    /\ caller = [c \in Callers |-> [pc |-> "idle", awaits |-> 0, own |-> 0]]
    /\ data = <<>> /\ receiveFutures = <<>> /\ promises = <<>>
    /\ events = <<>> /\ ret = NoRet /\ pushCallback = "none"
    /\ sock = "none" /\ closeCalls = 0 /\ wire = <<>>
    /\ FramerIdle /\ CipherIdle /\ ExtIdle

\* login() up to its first await: await this.loginMutex
CallLogin(c) ==
    /\ caller[c].pc = "idle"
    /\ caller' = [caller EXCEPT ![c] = [pc |-> "awaitMutex",
                                        awaits |-> loginMutex, own |-> 0]]
    /\ UNCHANGED <<loginMutex, mutexResolved, mutexCount, token, protoVars,
                   framerVars, cipherVars, extVars>>

\* login() from the awaited mutex to its next await: a new mutex promise
\* replaces this.loginMutex; with a valid token the call returns and
\* releases; otherwise the Login request is posted
LoginResume(c) ==
    /\ Resumable(c)
    /\ mutexCount' = mutexCount + 1
    /\ loginMutex' = mutexCount + 1
    /\ IF token
       THEN /\ mutexResolved' = mutexResolved \cup {mutexCount + 1}
            /\ caller' = [caller EXCEPT ![c] = [pc |-> "done", awaits |-> 0,
                                                own |-> 0]]
       ELSE /\ mutexResolved' = mutexResolved
            /\ caller' = [caller EXCEPT ![c] = [pc |-> "posting",
                                                awaits |-> 0,
                                                own |-> mutexCount + 1]]
    /\ UNCHANGED <<token, protoVars, framerVars, cipherVars, extVars>>

\* the answer to the Login request arrives: login() stores the token or
\* throws, and its finally block releases the mutex
LoginResponse(c, ok) ==
    /\ caller[c].pc = "posting"
    /\ \A d \in Callers : ~Resumable(d)
    /\ token' = IF ok THEN TRUE ELSE token
    /\ mutexResolved' = mutexResolved \cup {caller[c].own}
    /\ caller' = [caller EXCEPT ![c] = [pc |-> IF ok THEN "done" ELSE "failed",
                                        awaits |-> 0, own |-> 0]]
    /\ UNCHANGED <<loginMutex, mutexCount, protoVars, framerVars, cipherVars,
                   extVars>>

\* the lease runs out (or is within five minutes of running out)
LeaseExpires ==
    /\ token
    /\ \A d \in Callers : ~Resumable(d)
    /\ token' = FALSE
    /\ UNCHANGED <<loginMutex, mutexResolved, mutexCount, caller, protoVars,
                   framerVars, cipherVars, extVars>>

NextLogin ==
    \/ \E c \in Callers : CallLogin(c)
    \/ \E c \in Callers : LoginResume(c)
    \/ \E c \in Callers, ok \in BOOLEAN : LoginResponse(c, ok)
    \/ LeaseExpires

SpecLogin == InitLogin /\ [][NextLogin]_vars

\* C9: at most one caller is inside the login critical section (has posted
\* the Login request and not yet released the mutex) at any time.
C9_OneLoginInFlight ==
    Cardinality({c \in Callers : caller[c].pc = "posting"}) <= 1

----------------------------------------------------------------------------
(* Host.logout                                                             *)

\* logout() calls in one run
MaxLogoutCalls == 3

\* mutant of TokenAfterLogout: the token is cleared inside the try block,
\* after the awaited post
TokenAfterLogoutInsideTry(tok, postOk) == IF postOk THEN FALSE ELSE tok

\* logout(): this.token = null after the try/catch around the Logout
\* request, whether the request succeeded or failed (FALSE: not set)
TokenAfterLogout(tok, postOk) == FALSE

InitLogout ==
    /\ token = FALSE /\ leaseTime = FALSE /\ subscribed = FALSE
    /\ loPc = "idle" /\ loLast = "none" /\ loCalls = 0 /\ loSent = <<>>
    /\ loginMutex = 0 /\ mutexResolved = {} /\ mutexCount = 0
    /\ caller = <<>>
    /\ ProtoIdle /\ FramerIdle /\ CipherIdle /\ FmtIdle /\ CacheIdle
    /\ BatchIdle /\ MoreIdle

logoutRest ==
    <<loginMutex, mutexResolved, mutexCount, caller, protoVars, framerVars,
      cipherVars, fmtVars, cacheVars, batchVars,
      moreVars>>

\* login() completes while no logout() is running: token and lease are set
HostLoggedIn ==
    /\ loPc = "idle"
    /\ token' = TRUE /\ leaseTime' = TRUE
    /\ loLast' = "login"
    /\ UNCHANGED <<subscribed, loPc, loCalls, loSent, logoutRest>>

\* baichuan.subscribeEvents() completes while no logout() is running
HostSubscribed ==
    /\ loPc = "idle"
    /\ subscribed' = TRUE
    /\ loLast' = "subscribe"
    /\ UNCHANGED <<token, leaseTime, loPc, loCalls, loSent, logoutRest>>

\* logout() from the token check on: the Logout request is posted when a
\* token is set; without one the call clears token and lease and returns
LogoutFromTokenCheck(sent) ==
    IF token
    THEN /\ loSent' = Append(sent, "Logout")
         /\ loPc' = "posting"
         /\ UNCHANGED <<token, leaseTime, loLast>>
    ELSE /\ loSent' = sent
         /\ loPc' = "idle"
         /\ token' = FALSE /\ leaseTime' = FALSE
         /\ loLast' = "logout"

\* logout() up to its first await
CallLogout ==
    /\ loPc = "idle"
    /\ loCalls < MaxLogoutCalls
    /\ loCalls' = loCalls + 1
    /\ IF subscribed
       THEN /\ loSent' = Append(loSent, "unsubscribe")
            /\ loPc' = "unsubscribing"
            /\ UNCHANGED <<token, leaseTime, loLast>>
       ELSE LogoutFromTokenCheck(loSent)
    /\ UNCHANGED <<subscribed, logoutRest>>

\* baichuan.unsubscribeEvents() returns: the subscribed flag is off and
\* logout() goes on to the token check
UnsubscribeDone ==
    /\ loPc = "unsubscribing"
    /\ subscribed' = FALSE
    /\ LogoutFromTokenCheck(loSent)
    /\ UNCHANGED <<loCalls, logoutRest>>

\* baichuan.unsubscribeEvents() throws: logout() throws with it
UnsubscribeFailed ==
    /\ loPc = "unsubscribing"
    /\ subscribed' \in BOOLEAN
    /\ loPc' = "idle"
    /\ loLast' = "logout threw"
    /\ UNCHANGED <<token, leaseTime, loCalls, loSent, logoutRest>>

\* the post of the Logout request returns or throws (caught and logged);
\* token and lease are cleared and logout() returns
LogoutPostDone(postOk) ==
    /\ loPc = "posting"
    /\ token' = TokenAfterLogout(token, postOk)
    /\ leaseTime' = FALSE
    /\ loPc' = "idle"
    /\ loLast' = "logout"
    /\ UNCHANGED <<subscribed, loCalls, loSent, logoutRest>>

NextLogout ==
    \/ HostLoggedIn
    \/ HostSubscribed
    \/ CallLogout
    \/ UnsubscribeDone
    \/ UnsubscribeFailed
    \/ \E postOk \in BOOLEAN : LogoutPostDone(postOk)

SpecLogout == InitLogout /\ [][NextLogout]_vars

\* C17: when logout() has returned, token and lease are cleared; and a
\* logout() call made right after a logout() call returned issues no
\* request (no unsubscribe, no Logout), returns at once and leaves token,
\* lease and subscribed flag as they were.
C17_LogoutIdempotent ==
    [][ /\ (loLast' = "logout" /\ loPc' = "idle")
              => (~token' /\ ~leaseTime')
        /\ (loLast = "logout" /\ loPc = "idle" /\ loCalls' = loCalls + 1)
              => /\ loSent' = loSent
                 /\ loPc' = "idle"
                 /\ token' = token /\ leaseTime' = leaseTime
                 /\ subscribed' = subscribed ]_vars

\* a logout() that unsubscribed and posted Logout was followed by a second
\* logout() call, which has returned
C17_Witness ==
    /\ loLast = "logout" /\ loPc = "idle"
    /\ loCalls = 2
    /\ loSent = <<"unsubscribe", "Logout">>

----------------------------------------------------------------------------
(* buildBaichuanXml / format: placeholder substitution                     *)

\* tokens in a template of the experiment
MaxTemplateLen == 4

\* A template is a sequence of tokens: "{", "}", a name (a maximal run of
\* the characters [A-Za-z0-9_]) or other text. "constructor" is a name
\* that every object inherits from Object.prototype.
FmtNames == {"ch", "constructor"}
FmtTokens == {"{", "}", "<"} \cup FmtNames
ObjectPrototypeNames == {"constructor"}

\* no two names are adjacent (they would be one name)
RECURSIVE Templates(_)
Templates(n) ==
    IF n = 0 THEN {<<>>}
    ELSE LET shorter == Templates(n - 1)
         IN shorter \cup
            {Append(t, k) : t \in shorter, k \in (FmtTokens \ FmtNames)} \cup
            {Append(t, k) : t \in {u \in shorter :
                                     u = <<>> \/ u[Len(u)] \notin FmtNames},
                            k \in FmtNames}

\* values of a parameter map: string | number | boolean, and the null and
\* undefined the code tests for
FmtValues ==
    { [t |-> "undefined", v |-> 0], [t |-> "null", v |-> 0],
      [t |-> "number", v |-> 7], [t |-> "boolean", v |-> 1],
      [t |-> "string", v |-> "x"] }

\* parameter maps: own properties for any subset of the names
ParamMaps ==
    UNION {[ks -> FmtValues] : ks \in SUBSET FmtNames}

\* mutant of GetProperty: own properties only
GetOwnProperty(params, key) ==
    IF key \in DOMAIN params THEN params[key]
    ELSE [t |-> "undefined", v |-> 0]

\* params[key]: an own property, else what Object.prototype has under
\* that name, else undefined
GetProperty(params, key) ==
    IF key \in DOMAIN params THEN params[key]
    ELSE IF key \in ObjectPrototypeNames
    THEN [t |-> "function", v |-> key]
    ELSE [t |-> "undefined", v |-> 0]

\* String(value), as one token of text
StringOf(value) ==
    CASE value.t = "string" -> value.v
      [] value.t = "number" -> (IF value.v = 7 THEN "7" ELSE "0")
      [] value.t = "boolean" -> (IF value.v = 1 THEN "true" ELSE "false")
      [] value.t = "function" -> "function Object() { [native code] }"
      [] value.t = "null" -> "null"
      [] OTHER -> "undefined"

\* the replacer of format: "" (no token) for undefined and null
Replacement(params, key) ==
    LET value == GetProperty(params, key)
    IN IF value.t \in {"undefined", "null"} THEN <<>>
       ELSE <<StringOf(value)>>

\* template.replace(/\{([A-Za-z0-9_]+)\}/g, replacer)
RECURSIVE Format(_, _)
Format(template, params) ==
    IF template = <<>> THEN <<>>
    ELSE IF /\ Len(template) >= 3
            /\ template[1] = "{"
            /\ template[2] \in FmtNames
            /\ template[3] = "}"
    THEN Replacement(params, template[2])
            \o Format(SubSeq(template, 4, Len(template)), params)
    ELSE <<template[1]>> \o Format(Tail(template), params)

InitFormat ==
    /\ fmtTemplate \in Templates(MaxTemplateLen)
    /\ fmtParams \in ParamMaps
    /\ fmtOut = <<>> /\ fmtPc = "call"
    /\ ProtoIdle /\ FramerIdle /\ CipherIdle /\ LoginIdle
    /\ LogoutIdle /\ CacheIdle /\ BatchIdle
    /\ MoreIdle

\* buildBaichuanXml(fmtTemplate, fmtParams)
BuildBaichuanXml ==
    /\ fmtPc = "call"
    /\ fmtOut' = Format(fmtTemplate, fmtParams)
    /\ fmtPc' = "returned"
    /\ UNCHANGED <<fmtTemplate, fmtParams, protoVars, framerVars, cipherVars,
                   loginVars, logoutVars, cacheVars, batchVars,
      moreVars>>

NextFormat == BuildBaichuanXml

SpecFormat == InitFormat /\ [][NextFormat]_vars

\* the rendering the claim describes: a placeholder whose name the map
\* lacks, or maps to null or undefined, gives the empty string, any other
\* the string form of the map's value
RECURSIVE ClaimedRendering(_, _)
ClaimedRendering(template, params) ==
    IF template = <<>> THEN <<>>
    ELSE IF /\ Len(template) >= 3
            /\ template[1] = "{"
            /\ template[2] \in FmtNames
            /\ template[3] = "}"
    THEN (IF /\ template[2] \in DOMAIN params
             /\ params[template[2]].t \notin {"undefined", "null"}
          THEN <<StringOf(params[template[2]])>>
          ELSE <<>>)
            \o ClaimedRendering(SubSeq(template, 4, Len(template)), params)
    ELSE <<template[1]>> \o ClaimedRendering(Tail(template), params)

\* C18: buildBaichuanXml returns (it never raises an error), and what it
\* returns is the template with every placeholder whose name is missing
\* from the map, or mapped to null or undefined, replaced by the empty
\* string and every other placeholder by the string form of its value.
C18_PermissiveRendering ==
    fmtPc = "returned" => fmtOut = ClaimedRendering(fmtTemplate, fmtParams)

----------------------------------------------------------------------------
(* Cache (utils/index.ts): a Map with expiry times and a size limit        *)

\* largest maxSize option, last clock reading, largest ttl argument
MaxCacheSize == 2
MaxTime == 2
MaxTtl == 1

CacheKeys == {"a", "b", "c"}
CacheValues == {"v1", "v2"}

\* ttl || this.defaultTtl (Undefined: the argument is absent)
TtlOf(ttl, dflt) == IF ttl = Undefined \/ ttl = 0 THEN dflt ELSE ttl

\* position of key among the Map's entries, 0 when it has none
IndexOf(c, key) ==
    IF \E i \in DOMAIN c : c[i].key = key
    THEN CHOOSE i \in DOMAIN c : c[i].key = key
    ELSE 0

\* Map.delete(key)
MapDelete(c, key) == LET Other(e) == e.key # key IN SelectSeq(c, Other)

\* Map.set(key, entry): an existing key keeps its place
MapSet(c, entry) ==
    IF IndexOf(c, entry.key) # 0
    THEN [c EXCEPT ![IndexOf(c, entry.key)] = entry]
    ELSE Append(c, entry)

\* mutant of Evicts: the test is size > maxSize
EvictsAboveMax(c, max, key) ==
    Len(c) > max /\ IndexOf(c, key) = 0 /\ c # <<>>

\* set(): this.cache.size >= this.maxSize && !this.cache.has(key), and the
\* Map has a first key
Evicts(c, max, key) ==
    Len(c) >= max /\ IndexOf(c, key) = 0 /\ c # <<>>

\* set(key, value, ttl) at time t: the entries afterwards
SetEntries(c, max, dflt, t, key, value, ttl) ==
    MapSet(IF Evicts(c, max, key) THEN Tail(c) ELSE c,
           [key |-> key, value |-> value, expires |-> t + TtlOf(ttl, dflt)])

\* Date.now() > entry.expires
Expired(e, t) == t > e.expires

\* the recency list after key was used / after the keys not in c are gone
Touch(r, key) == LET Other(k) == k # key IN Append(SelectSeq(r, Other), key)
Present(r, c) == LET In(k) == IndexOf(c, k) # 0 IN SelectSeq(r, In)

Ret(op, key, value, evicted, ttl) ==
    [op |-> op, key |-> key, value |-> value, evicted |-> evicted,
     ttl |-> ttl]

InitCache ==
    /\ cache = <<>>
    /\ maxSize \in 1..MaxCacheSize      \* options.maxSize
    /\ defaultTtl = MaxTtl + 1
    /\ now = 0
    /\ cacheRet = Ret("new", "none", "undefined", "none", Undefined)
    /\ recency = <<>>
    /\ ProtoIdle /\ FramerIdle /\ CipherIdle /\ LoginIdle
    /\ LogoutIdle /\ FmtIdle /\ BatchIdle
    /\ MoreIdle

cacheRest ==
    <<protoVars, framerVars, cipherVars, loginVars, logoutVars, fmtVars,
      batchVars,
      moreVars>>

\* set(key, value, ttl)
CacheSet(key, value, ttl) ==
    /\ cache' = SetEntries(cache, maxSize, defaultTtl, now, key, value, ttl)
    /\ cacheRet' = Ret("set", key, "undefined",
                       IF Evicts(cache, maxSize, key)
                       THEN Head(cache).key ELSE "none", ttl)
    /\ recency' = Touch(Present(recency, cache'), key)
    /\ UNCHANGED <<maxSize, defaultTtl, now, cacheRest>>

\* get(key): what it returns and the entries afterwards
GetResult(c, t, key) ==
    LET i == IndexOf(c, key)
    IN IF i = 0 THEN [value |-> "undefined", cache |-> c]
       ELSE IF Expired(c[i], t)
       THEN [value |-> "undefined", cache |-> MapDelete(c, key)]
       ELSE [value |-> c[i].value, cache |-> c]

\* get(key)
CacheGet(key) ==
    /\ LET r == GetResult(cache, now, key)
       IN /\ cache' = r.cache
          /\ cacheRet' = Ret("get", key, r.value, "none", Undefined)
          /\ recency' = IF r.value # "undefined"
                        THEN Touch(recency, key)
                        ELSE Present(recency, r.cache)
    /\ UNCHANGED <<maxSize, defaultTtl, now, cacheRest>>

\* has(key): this.get(key) !== undefined
CacheHas(key) ==
    /\ LET r == GetResult(cache, now, key)
       IN /\ cache' = r.cache
          /\ cacheRet' = Ret("has", key,
                             IF r.value # "undefined" THEN "true"
                             ELSE "false", "none", Undefined)
          /\ recency' = IF r.value # "undefined"
                        THEN Touch(recency, key)
                        ELSE Present(recency, r.cache)
    /\ UNCHANGED <<maxSize, defaultTtl, now, cacheRest>>

\* delete(key)
CacheDelete(key) ==
    /\ cache' = MapDelete(cache, key)
    /\ cacheRet' = Ret("delete", key,
                       IF IndexOf(cache, key) # 0 THEN "true" ELSE "false",
                       "none", Undefined)
    /\ recency' = Present(recency, cache')
    /\ UNCHANGED <<maxSize, defaultTtl, now, cacheRest>>

\* clear()
CacheClear ==
    /\ cache' = <<>>
    /\ cacheRet' = Ret("clear", "none", "undefined", "none", Undefined)
    /\ recency' = <<>>
    /\ UNCHANGED <<maxSize, defaultTtl, now, cacheRest>>

\* cleanup(): the expired entries are deleted
CacheCleanup ==
    /\ LET Live(e) == ~Expired(e, now) IN cache' = SelectSeq(cache, Live)
    /\ cacheRet' = Ret("cleanup", "none", "undefined", "none", Undefined)
    /\ recency' = Present(recency, cache')
    /\ UNCHANGED <<maxSize, defaultTtl, now, cacheRest>>

\* the clock moves on between two calls
Tick ==
    /\ now < MaxTime
    /\ now' = now + 1
    /\ UNCHANGED <<cache, maxSize, defaultTtl, cacheRet, recency, cacheRest>>

NextCache ==
    \/ \E k \in CacheKeys, v \in CacheValues,
          ttl \in {Undefined, 0, MaxTtl} : CacheSet(k, v, ttl)
    \/ \E k \in CacheKeys : CacheGet(k)
    \/ \E k \in CacheKeys : CacheHas(k)
    \/ \E k \in CacheKeys : CacheDelete(k)
    \/ CacheClear
    \/ CacheCleanup
    \/ Tick

SpecCache == InitCache /\ [][NextCache]_vars

\* C19: when set() inserts a new key into a full cache, the entry it
\* removes is the one used least recently (read by get or has, or written
\* by set) among the entries the cache held.
C19_EvictsLeastRecentlyUsed ==
    [][ (cacheRet'.op = "set" /\ cacheRet'.evicted # "none")
           => cacheRet'.evicted = Head(Present(recency, cache)) ]_vars

\* C20: the cache never holds more than maxSize entries.
C20_SizeBound == Len(cache) <= maxSize

\* set() has just evicted an entry of a full cache to insert a new key
C20_Witness ==
    /\ cacheRet.op = "set" /\ cacheRet.evicted # "none"
    /\ Len(cache) = maxSize
    /\ maxSize = MaxCacheSize

\* C21: get returns the stored value exactly while the clock is not past
\* the entry's expiry and undefined otherwise, has answers accordingly,
\* and the expiry set() stores is the time of the call plus the ttl given
\* to it, or plus the default ttl when none is given.
C21_NeverReturnsExpired ==
    [][ /\ cacheRet'.op \in {"get", "has"} =>
              LET i == IndexOf(cache, cacheRet'.key)
                  live == i # 0 /\ now <= cache[i].expires
              IN cacheRet'.value =
                    IF cacheRet'.op = "get"
                    THEN (IF live THEN cache[i].value ELSE "undefined")
                    ELSE (IF live THEN "true" ELSE "false")
        /\ cacheRet'.op = "set" =>
              cache'[IndexOf(cache', cacheRet'.key)].expires
                 = now + (IF cacheRet'.ttl = Undefined THEN defaultTtl
                          ELSE cacheRet'.ttl) ]_vars

----------------------------------------------------------------------------
(* RequestBatcher (utils/request-batcher.ts)                               *)

\* requests one run makes, largest maxBatchSize option
MaxRequests == 3
MaxBatchSize == 2

NoError == [msg |-> "none", batch |-> 0]

\* the requests ids of reqs that are still pending get state st and error
\* err (a promise is settled once; later calls change nothing)
Settle(reqs, ids, st, err) ==
    [r \in DOMAIN reqs |->
        IF r \in ids /\ reqs[r].state = "pending"
        THEN [state |-> st, err |-> err]
        ELSE reqs[r]]

Elements(q) == {q[i] : i \in DOMAIN q}

\* mutant of TimerAfterAdd: add() never starts the timer
TimerAfterAddUnarmed(t) == t

\* add(): if (!this.timer) this.timer = setTimeout(...)
TimerAfterAdd(t) == TRUE

\* mutant of FlushesAt: the test is length > maxBatchSize
FlushesAbove(len, max) == len > max

\* add(): this.queue.length >= this.maxBatchSize
FlushesAt(len, max) == len >= max

\* mutant of FlushResult: the batch is a copy, and the queue keeps its
\* requests
FlushResultCopies(q, handler, bs, via) ==
    IF q = <<>> THEN [queue |-> q, batches |-> bs]
    ELSE [queue |-> q,
          batches |-> IF handler
                      THEN Append(bs, [reqs |-> q, status |-> "running",
                                       via |-> via])
                      ELSE bs]

\* flush() up to its await, for queue q: the queue is spliced whole into a
\* batch, which goes to the handler when one is set
FlushResult(q, handler, bs, via) ==
    IF q = <<>> THEN [queue |-> q, batches |-> bs]
    ELSE [queue |-> <<>>,
          batches |-> IF handler
                      THEN Append(bs, [reqs |-> q, status |-> "running",
                                       via |-> via])
                      ELSE bs]

\* mutant of FailedRequests: the requests of every batch are rejected
FailedRequestsOfEveryBatch(bs, b) ==
    UNION {Elements(bs[i].reqs) : i \in DOMAIN bs}

\* flush(): batch.forEach(req => req.reject(error))
FailedRequests(bs, b) == Elements(bs[b].reqs)

\* mutant of QueueAfterClear: the queue is left as it was
QueueAfterClearKept(q) == q

\* clear(): this.queue = []
QueueAfterClear(q) == <<>>

InitBatcher ==
    /\ queue = <<>> /\ timer = FALSE /\ flushHandler = FALSE
    /\ enabled \in BOOLEAN
    /\ maxBatchSize \in 1..MaxBatchSize
    /\ requests = <<>> /\ batches = <<>>
    /\ ProtoIdle /\ FramerIdle /\ CipherIdle /\ LoginIdle
    /\ LogoutIdle /\ FmtIdle /\ CacheIdle /\ MoreIdle

batchRest ==
    <<protoVars, framerVars, cipherVars, loginVars, logoutVars, fmtVars,
      cacheVars, moreVars>>

\* setFlushHandler(handler)
SetFlushHandler ==
    /\ ~flushHandler
    /\ flushHandler' = TRUE
    /\ UNCHANGED <<queue, timer, enabled, maxBatchSize, requests, batches,
                   batchRest>>

\* add(command, params): executeSingle when batching is off or no handler
\* is set; otherwise the request is queued, the timer started, and the
\* queue flushed when it has reached maxBatchSize
Add ==
    /\ Len(requests) < MaxRequests
    /\ LET n == Len(requests) + 1
       IN IF ~enabled \/ ~flushHandler
          THEN /\ IF flushHandler
                  THEN /\ requests' = Append(requests, [state |-> "pending",
                                                        err |-> NoError])
                       /\ batches' = Append(batches,
                                        [reqs |-> <<n>>, status |-> "running",
                                         via |-> "single"])
                  ELSE /\ requests' = Append(requests,
                              [state |-> "rejected",
                               err |-> [msg |-> "No flush handler configured",
                                        batch |-> 0]])
                       /\ batches' = batches
               /\ UNCHANGED <<queue, timer>>
          ELSE /\ requests' = Append(requests, [state |-> "pending",
                                                err |-> NoError])
               /\ IF FlushesAt(Len(queue) + 1, maxBatchSize)
                  THEN LET f == FlushResult(Append(queue, n), flushHandler,
                                            batches, "size")
                       IN /\ queue' = f.queue
                          /\ batches' = f.batches
                          /\ timer' = FALSE
                  ELSE /\ queue' = Append(queue, n)
                       /\ timer' = TimerAfterAdd(timer)
                       /\ batches' = batches
    /\ UNCHANGED <<flushHandler, enabled, maxBatchSize, batchRest>>

\* flush() called by the owner
FlushCall ==
    /\ LET f == FlushResult(queue, flushHandler, batches, "call")
       IN queue' = f.queue /\ batches' = f.batches
    /\ timer' = FALSE
    /\ UNCHANGED <<flushHandler, enabled, maxBatchSize, requests, batchRest>>

\* the flush timer fires: flush()
TimerFires ==
    /\ timer
    /\ LET f == FlushResult(queue, flushHandler, batches, "timer")
       IN queue' = f.queue /\ batches' = f.batches
    /\ timer' = FALSE
    /\ UNCHANGED <<flushHandler, enabled, maxBatchSize, requests, batchRest>>

\* the handler, still running on batch b, resolves request r of the batch
HandlerResolves(b, r) ==
    /\ batches[b].status = "running"
    /\ r \in Elements(batches[b].reqs)
    /\ requests[r].state = "pending"
    /\ requests' = Settle(requests, {r}, "resolved", NoError)
    /\ UNCHANGED <<queue, timer, flushHandler, enabled, maxBatchSize,
                   batches, batchRest>>

\* the handler's promise for batch b resolves
HandlerReturns(b) ==
    /\ batches[b].status = "running"
    /\ batches' = [batches EXCEPT ![b].status = "returned"]
    /\ UNCHANGED <<queue, timer, flushHandler, enabled, maxBatchSize,
                   requests, batchRest>>

\* the handler's promise for batch b rejects: the catch of flush() (or of
\* executeSingle) calls reject on the requests of the batch
HandlerFails(b) ==
    /\ batches[b].status = "running"
    /\ batches' = [batches EXCEPT ![b].status = "failed"]
    /\ requests' = Settle(requests, FailedRequests(batches, b), "rejected",
                          [msg |-> "handler error", batch |-> b])
    /\ UNCHANGED <<queue, timer, flushHandler, enabled, maxBatchSize,
                   batchRest>>

\* clear(): what it does to timer, requests and queue
ClearEffect ==
    /\ timer' = FALSE
    /\ requests' = Settle(requests, Elements(queue), "rejected",
                          [msg |-> "Request batch cleared", batch |-> 0])
    /\ queue' = QueueAfterClear(queue)

\* clear()
Clear ==
    /\ ClearEffect
    /\ UNCHANGED <<flushHandler, enabled, maxBatchSize, batches, batchRest>>

\* destroy(): clear(), then the handler is dropped
Destroy ==
    /\ ClearEffect
    /\ flushHandler' = FALSE
    /\ UNCHANGED <<enabled, maxBatchSize, batches, batchRest>>

NextBatcher ==
    \/ SetFlushHandler
    \/ Add
    \/ FlushCall
    \/ TimerFires
    \/ \E b \in DOMAIN batches, r \in DOMAIN requests : HandlerResolves(b, r)
    \/ \E b \in DOMAIN batches : HandlerReturns(b)
    \/ \E b \in DOMAIN batches : HandlerFails(b)
    \/ Clear
    \/ Destroy

SpecBatcher == InitBatcher /\ [][NextBatcher]_vars

\* a pending timer fires: the event loop runs every timer that is due
SpecBatcherFair == SpecBatcher /\ WF_vars(TimerFires)

\* C22: no batch handed to the flush handler holds more than maxBatchSize
\* requests.
C22_BatchSizeBound ==
    \A b \in DOMAIN batches : Len(batches[b].reqs) <= maxBatchSize

\* add() has flushed a batch of maxBatchSize requests, the largest allowed
C22_Witness ==
    \E b \in DOMAIN batches :
        /\ batches[b].via = "size"
        /\ Len(batches[b].reqs) = maxBatchSize
        /\ maxBatchSize = MaxBatchSize

InQueue(r) == r \in Elements(queue)

Handed(r) == \E b \in DOMAIN batches : r \in Elements(batches[b].reqs)

Cleared(r) ==
    /\ r \in DOMAIN requests
    /\ requests[r].state = "rejected"
    /\ requests[r].err.msg = "Request batch cleared"

\* C23: while the queue is non-empty a flush timer is pending and a handler
\* is set; the firing of the timer hands the whole queue to the handler as
\* one batch; so every queued request eventually is handed to the handler
\* or rejected by clear().
C23_QueuedIsFlushed ==
    /\ [](queue # <<>> => timer /\ flushHandler)
    /\ [][TimerFires /\ queue # <<>> =>
            /\ queue' = <<>>
            /\ batches' = Append(batches, [reqs |-> queue,
                               status |-> "running", via |-> "timer"])]_vars
    /\ \A r \in 1..MaxRequests :
           InQueue(r) ~> (~InQueue(r) /\ (Handed(r) \/ Cleared(r)))

\* the timer has flushed a queue shorter than maxBatchSize
C23_Witness ==
    \E b \in DOMAIN batches :
        /\ batches[b].via = "timer"
        /\ Len(batches[b].reqs) < maxBatchSize

InBatch(b, r) == r \in Elements(batches[b].reqs)

RejectedBy(reqs, r, b) ==
    reqs[r] = [state |-> "rejected",
               err |-> [msg |-> "handler error", batch |-> b]]

\* C24 as stated: when the handler fails for batch b, every request of b
\* is rejected with the error of b and no request outside b changes.
C24_FailureRejectsBatch ==
    [][\A b \in DOMAIN batches :
          HandlerFails(b) =>
              \A r \in DOMAIN requests :
                  IF InBatch(b, r) THEN RejectedBy(requests', r, b)
                  ELSE requests'[r] = requests[r]]_vars

\* C24 amended: when the handler fails for batch b, every request of b that
\* the handler had not settled is rejected with the error of b; a request
\* the handler had settled, and every request outside b, stays as it was.
C24_FailureRejectsPending ==
    [][\A b \in DOMAIN batches :
          HandlerFails(b) =>
              \A r \in DOMAIN requests :
                  IF InBatch(b, r) /\ requests[r].state = "pending"
                  THEN RejectedBy(requests', r, b)
                  ELSE requests'[r] = requests[r]]_vars

\* a batch has failed after the handler resolved one of its requests: the
\* other is rejected, and a request outside the batch is still pending
C24_Witness ==
    \E b \in DOMAIN batches :
        /\ batches[b].status = "failed"
        /\ \E r \in DOMAIN requests :
               InBatch(b, r) /\ RejectedBy(requests, r, b)
        /\ \E r \in DOMAIN requests :
               InBatch(b, r) /\ requests[r].state = "resolved"
        /\ \E r \in DOMAIN requests :
               ~InBatch(b, r) /\ requests[r].state = "pending"

\* C25: clear() (also as the first step of destroy()) rejects every queued
\* request with 'Request batch cleared', empties the queue and cancels the
\* timer; a cleared request is never in the queue or in a batch afterwards.
C25_ClearRejectsQueue ==
    /\ [][Clear \/ Destroy =>
            /\ queue' = <<>>
            /\ timer' = FALSE
            /\ \A r \in Elements(queue) : Cleared(r)']_vars
    /\ [](\A r \in DOMAIN requests :
              Cleared(r) => ~InQueue(r) /\ ~Handed(r))

\* after a clear() that rejected a request, the timer has fired for a
\* later request
C25_Witness ==
    \E r \in DOMAIN requests, b \in DOMAIN batches :
        /\ Cleared(r)
        /\ batches[b].via = "timer"
        /\ batches[b].reqs[1] > r

\* request r went through the queue: add() did not hand it to
\* executeSingle
Accepted(r) ==
    /\ requests[r].err.msg # "No flush handler configured"
    /\ \A b \in DOMAIN batches : batches[b].via = "single" => ~InBatch(b, r)

\* the places request r is at: positions of the queue, positions of the
\* batches handed to the handler, and the rejection by clear()
PlacesOf(r) ==
    {<<"queue", 0, i>> : i \in {j \in DOMAIN queue : queue[j] = r}}
    \cup {p \in {"batch"} \X (DOMAIN batches) \X (1..MaxRequests) :
             /\ p[3] \in DOMAIN batches[p[2]].reqs
             /\ batches[p[2]].reqs[p[3]] = r}
    \cup (IF Cleared(r) THEN {<<"cleared", 0, 0>>} ELSE {})

\* C37: a request accepted into the queue is, at every moment, at exactly
\* one place: once in the queue, once in one batch handed to the handler,
\* or rejected by clear(); and it does not stay in the queue for ever.
C37_NeitherLostNorDuplicated ==
    /\ [](\A r \in DOMAIN requests :
             Accepted(r) => Cardinality(PlacesOf(r)) = 1)
    /\ \A r \in 1..MaxRequests : InQueue(r) ~> ~InQueue(r)

\* while the handler is still running on a batch, a request added after
\* the flush waits in the queue, and an earlier request was cleared
C37_Witness ==
    \E b \in DOMAIN batches, r \in DOMAIN requests :
        /\ batches[b].status = "running"
        /\ batches[b].via # "single"
        /\ InQueue(r) /\ r > batches[b].reqs[1]
        /\ \E c \in DOMAIN requests : Cleared(c)

----------------------------------------------------------------------------
(* SpecWire: the framing experiment with frames the framer must refuse     *)

\* a frame-type tag the parser does not know ("1234")
ClassUnknown == <<18, 52>>

\* frame with its first four bytes replaced by magic
WithMagic(frame, magic) == magic \o Drop(frame, 4)

\* four bytes that start like the magic constant and are not it
NearMagic == <<240, 0, 0, 0>>

\* a response to KeyA under each frame-type tag, an unmatched push message,
\* a response whose payload offset is 8, and a response whose first four
\* bytes are not the magic constant
WireFrames ==
    { BuildFrame(1, 250, 200, Class1464, 0, <<7>>),
      BuildFrame(1, 0, 0, Class1466, 0, <<>>),
      BuildFrame(1, 250, 200, Class0000, 0, <<>>),
      BuildFrame(1, 250, 0, Class1465, 0, <<>>),
      BuildFrame(1, 250, 0, ClassUnknown, 0, <<>>),
      BuildFrame(1, 250, 200, Class1464, 8, <<7>>),
      WithMagic(BuildFrame(1, 250, 0, Class1466, 0, <<>>), NearMagic) }

\* frames in one stream of this experiment
MaxWireFrames == 1

InitWire ==
    /\ stream \in (StreamsOf(MaxWireFrames, WireFrames) \ {<<>>})
    /\ pos = 0
    /\ \E ks \in {{}, {KeyA}, {KeyA, KeyB}} :
          /\ receiveFutures = TableOf(ks).rf
          /\ promises = TableOf(ks).prom
    /\ pushCallback \in {"none", "ok"}
    /\ data = <<>> /\ events = <<>> /\ ret = NoRet
    /\ sock = "open" /\ closeCalls = 0 /\ wire = <<>>
    /\ CipherIdle /\ LoginIdle /\ ExtIdle

SpecWire == InitWire /\ [][NextFramer]_vars

\* the kinds of event that hand a message to a request or to the callback
DispatchKinds == {"resolve", "reject", "push", "drop"}

TagOf(chunk) == SubSeq(chunk, 19, 20)

\* the chunk the step has fed
FedChunk == SubSeq(stream, pos + 1, pos')

\* C26: every message resolved to a pending request or passed to the push
\* callback begins with the four bytes of the magic constant.
C26_MagicValidation ==
    \A i \in DOMAIN events :
        events[i].kind \in {"resolve", "push"}
            => Take(events[i].chunk, 4) = HEADER_MAGIC

\* the tag of every dispatched message is in tags and selects its header
\* length; a chunk that begins a message with another tag is answered by
\* one InvalidContentTypeError, an empty buffer and no dispatch.
TagResolution(tags) ==
    /\ \A e \in NewEvents :
          e.kind \in DispatchKinds
              => /\ TagOf(e.chunk) \in tags
                 /\ e.lenHeader
                      = (IF TagOf(e.chunk) = Class1466 THEN 20 ELSE 24)
    /\ (/\ Take(FedChunk, 4) = HEADER_MAGIC
        /\ Len(FedChunk) >= 20
        /\ TagOf(FedChunk) \notin tags)
          => /\ data' = <<>>
             /\ Len(events') = Len(events) + 1
             /\ \A e \in NewEvents :
                    e.kind = "error" /\ e.cls = "InvalidContentTypeError"

\* C27 as stated: only the compact tag and the extended tag lead to a
\* dispatched message; every other tag is an error and no dispatch.
C27_TwoTags == [][TagResolution({Class1466, Class1464})]_vars

\* C27 amended: the compact tag (20-byte header) and the two extended tags
\* 1464 and 0000 (24-byte header) lead to a dispatched message; the legacy
\* tag and every other tag are an error and no dispatch.
C27_ThreeTags == [][TagResolution({Class1466, Class1464, Class0000})]_vars

\* a message with tag 0000 has resolved the pending request
C27_Witness ==
    \E i \in DOMAIN events :
        /\ events[i].kind = "resolve" /\ events[i].prior = "pending"
        /\ TagOf(events[i].chunk) = Class0000
        /\ events[i].lenHeader = 24

\* chunk begins a message with an extended header whose payload offset is
\* not zero
BadOffset(chunk) ==
    /\ Len(chunk) >= 24
    /\ Take(chunk, 4) = HEADER_MAGIC
    /\ IsExtended(TagOf(chunk))
    /\ ReadUInt32LE(chunk, 20) # 0

\* C28: no dispatched message has a non-zero payload offset; when a chunk
\* begins such a message nothing is dispatched and the pending request with
\* its (command id, identifier) is rejected with InvalidContentTypeError.
C28_PayloadOffset ==
    [][ /\ \A e \in NewEvents :
              e.kind \in DispatchKinds => ~BadOffset(e.chunk)
        /\ BadOffset(FedChunk) =>
              /\ \A e \in NewEvents : e.kind \notin DispatchKinds
              /\ \A p \in DOMAIN promises :
                    (/\ promises[p].state = "pending"
                     /\ InTable(p)
                     /\ KeyOf(promises[p]) = ChunkKey(FedChunk))
                       => /\ promises'[p].state = "rejected"
                          /\ promises'[p].err.cls = "InvalidContentTypeError"
      ]_vars

\* the first message of the stream has payload offset 8 and the request it
\* answers has been rejected for it
C28_Witness ==
    /\ BadOffset(Take(stream, 24))
    /\ Len(events) = 1 /\ events[1].kind = "error"
    /\ \E p \in DOMAIN promises :
          /\ KeyOf(promises[p]) = KeyA
          /\ promises[p].state = "rejected"
          /\ promises[p].err.cls = "InvalidContentTypeError"

----------------------------------------------------------------------------
(* SpecMulti: streams of three well-formed messages, so that one chunk can *)
(* hold two complete messages and the start of a third                     *)

\* a response to KeyA, a response to KeyA with an error status, and an
\* unmatched push message
MultiFrames ==
    { BuildFrame(1, 250, 200, Class1464, 0, <<7>>),
      BuildFrame(1, 250, 401, Class1464, 0, <<>>),
      BuildFrame(1, 0, 0, Class1466, 0, <<7>>) }

InitMulti ==
    /\ stream \in (StreamsOf(MaxStreamFrames + 1, MultiFrames) \ {<<>>})
    /\ pos = 0
    /\ \E ks \in {{}, {KeyA}, {KeyA, KeyB}} :
          /\ receiveFutures = TableOf(ks).rf
          /\ promises = TableOf(ks).prom
    /\ pushCallback \in {"none", "ok", "throws"}
    /\ data = <<>> /\ events = <<>> /\ ret = NoRet
    /\ sock = "open" /\ closeCalls = 0 /\ wire = <<>>
    /\ CipherIdle /\ LoginIdle /\ ExtIdle

\* the length of the complete message buf begins with, 0 when it begins
\* with none
FirstLen(buf) ==
    IF Len(buf) < 20 THEN 0
    ELSE LET lenHeader == IF TagOf(buf) = Class1466 THEN 20 ELSE 24
         IN IF Len(buf) < lenHeader THEN 0
            ELSE IF Len(buf) < lenHeader + ReadUInt32LE(buf, 8) THEN 0
            ELSE lenHeader + ReadUInt32LE(buf, 8)

\* the complete messages buf begins with, in wire order
RECURSIVE Complete(_)
Complete(buf) ==
    IF FirstLen(buf) = 0 THEN <<>>
    ELSE <<Take(buf, FirstLen(buf))>> \o Complete(Drop(buf, FirstLen(buf)))

\* what follows the complete messages of buf
RECURSIVE Trailing(_)
Trailing(buf) ==
    IF FirstLen(buf) = 0 THEN buf ELSE Trailing(Drop(buf, FirstLen(buf)))

\* how many bytes of a message a chunk of this experiment may end with:
\* none, half the magic constant, the compact header, a byte more
TailLens == {0, 2, 20, 21}

NextMulti ==
    \E n \in 1..(Len(stream) - pos) :
        /\ Len(Trailing(SubSeq(stream, 1, pos + n))) \in TailLens
        /\ Feed(n)

SpecMulti == InitMulti /\ [][NextMulti]_vars

\* the dispatches of the step, in the order they were made
Dispatched ==
    LET IsDispatch(e) == e.kind \in DispatchKinds
    IN SelectSeq(SubSeq(events', Len(events) + 1, Len(events')), IsDispatch)

\* a chunk of two or more complete messages has each of them dispatched
\* once, in wire order
EachOnceInOrder ==
    LET msgs == Complete(FedChunk)
    IN (Take(FedChunk, 4) = HEADER_MAGIC /\ Len(msgs) >= 2)
          => /\ Len(Dispatched) = Len(msgs)
             /\ \A i \in DOMAIN msgs :
                   /\ Dispatched[i].chunk = msgs[i]
                   /\ Dispatched[i].kind = ExpectedKind(msgs[i])

\* the buffered start of a message is dispatched by the call that brings
\* the rest of it
CompletedLater ==
    (data # <<>> /\ IsWholeFrame(data \o FedChunk))
        => /\ Len(Dispatched) = 1
           /\ Dispatched[1].chunk = data \o FedChunk
           /\ Dispatched[1].kind = ExpectedKind(data \o FedChunk)

\* C29 as stated: a chunk of several complete messages has each dispatched
\* once and in wire order, and what follows them stays in the buffer until
\* the rest arrives.
C29_MultiMessage ==
    [][ /\ EachOnceInOrder
        /\ (Take(FedChunk, 4) = HEADER_MAGIC
            /\ Len(Complete(FedChunk)) >= 2)
              => data' = Trailing(FedChunk)
        /\ CompletedLater ]_vars

\* C29 amended: the same, but when the push callback raised an exception
\* during the call the buffer is empty afterwards.
C29_MultiMessageUnlessCaught ==
    [][ /\ EachOnceInOrder
        /\ (Take(FedChunk, 4) = HEADER_MAGIC
            /\ Len(Complete(FedChunk)) >= 2)
              => data' = (IF \E e \in NewEvents : e.kind = "caught"
                          THEN <<>> ELSE Trailing(FedChunk))
        /\ CompletedLater ]_vars

\* a push message and a response have been dispatched in that order, the
\* start of a third message is buffered
C29_Witness ==
    /\ Len(events) = 2
    /\ events[1].kind = "push" /\ events[2].kind = "resolve"
    /\ data # <<>> /\ data = SubSeq(stream, pos - Len(data) + 1, pos)
    /\ pos = Len(events[1].chunk) + Len(events[2].chunk) + Len(data)

\* the bytes parseData works on in the step: a chunk that begins with the
\* magic constant replaces the buffer, any other is appended to it
Parsed == IF Take(FedChunk, 4) = HEADER_MAGIC THEN FedChunk
          ELSE data \o FedChunk

\* the complete messages the call can take from the buffer: none unless
\* the bytes begin with the magic constant
Taken == IF Take(Parsed, 4) = HEADER_MAGIC THEN Complete(Parsed) ELSE <<>>

\* what the dispatch recorded as e did: it settled a pending request,
\* called the push callback, or had no effect
Outcome(e) ==
    IF e.kind \in {"resolve", "reject"} /\ e.prior = "pending"
    THEN <<e.kind, e.p>>
    ELSE IF e.kind = "push" THEN <<"push", 0>> ELSE <<"drop", 0>>

\* C38: the messages a call takes from the buffer are dispatched one time
\* each; a dispatch settles the one pending request the message's command
\* id and identifier select, or calls the push callback, or has no
\* effect; a message that selects a request is not given to the push
\* callback, and no request changes that no message of the call selected.
C38_OneOutcome ==
    [][ /\ Len(Dispatched) <= Len(Taken)
        /\ \A i \in DOMAIN Dispatched :
              LET e == Dispatched[i]
                  key == <<e.cmd, e.mess>>
              IN /\ e.chunk = Taken[i]
                 /\ IF key \in DOMAIN receiveFutures
                    THEN /\ e.kind \in {"resolve", "reject"}
                         /\ e.p = receiveFutures[key]
                    ELSE /\ e.kind \in {"push", "drop"} /\ e.p = 0
                         /\ e.kind = "push" => pushCallback # "none"
        /\ (\A e \in NewEvents : e.kind # "error") =>
              \A p \in DOMAIN promises :
                  promises'[p] # promises[p] =>
                      /\ promises[p].state = "pending"
                      /\ \E i \in DOMAIN Dispatched :
                            /\ Outcome(Dispatched[i])[2] = p
                            /\ \/ /\ Outcome(Dispatched[i])[1] = "resolve"
                                  /\ promises'[p].state = "resolved"
                                  /\ promises'[p].val[1] = Dispatched[i].chunk
                               \/ /\ Outcome(Dispatched[i])[1] = "reject"
                                  /\ promises'[p].state = "rejected"
      ]_vars

\* a response has resolved the pending request, a second message with the
\* same identifier found it settled and changed nothing, and a push message
\* went to the callback
C38_Witness ==
    \E i, j, k \in DOMAIN events :
        /\ events[i].kind = "resolve" /\ events[i].prior = "pending"
        /\ events[j].kind = "reject" /\ events[j].prior = "resolved"
        /\ events[j].p = events[i].p
        /\ events[k].kind = "push"

----------------------------------------------------------------------------
(* feed and the receive buffer (checked under SpecFramer)                  *)

\* handleData as C30 describes it: the chunk replaces the buffer only when
\* the buffer is empty, and is appended to a non-empty buffer
AppendingHandleData(st, rf, push, chunk) ==
    IF Len(st.data) > 0
    THEN Catch(ParseData([st EXCEPT !.data = st.data \o chunk], rf, push))
    ELSE IF Take(chunk, 4) = HEADER_MAGIC
    THEN Catch(ParseData([st EXCEPT !.data = chunk], rf, push))
    ELSE IF Len(chunk) < 4 /\ IsMagicPrefix(chunk)
    THEN [st EXCEPT !.data = chunk]
    ELSE SetError(st, rf, "UnexpectedDataError", Undefined, Undefined)

\* C30: every call of handleData leaves the buffer, the requests and the
\* dispatches as a handleData that appends to a non-empty buffer does, also
\* when the chunk begins with the magic constant.
C30_FeedAppends ==
    [][ LET st == AppendingHandleData(FramerState(promises, events),
                                      receiveFutures, pushCallback, FedChunk)
        IN /\ data' = st.data
           /\ promises' = st.promises
           /\ events' = st.events ]_vars

----------------------------------------------------------------------------
(* The XOR stream formula (checked under SpecCipher)                       *)

\* the 8-entry table of the formula, entries 0..7
StreamTable ==
    [j \in 0..7 |-> CASE j = 0 -> 31  [] j = 1 -> 45  [] j = 2 -> 60
                      [] j = 3 -> 75  [] j = 4 -> 90  [] j = 5 -> 105
                      [] j = 6 -> 120 [] j = 7 -> 255]

\* C31: for every identifier k in 0..255 and every body of bytes, byte i
\* (from 0) of what encryptBaichuan returns is
\* body[i] XOR table[(k + i) mod 8] XOR k, and the output is as long as
\* the body.
C31_StreamFormula ==
    cPc \in {"encrypted", "decrypted"} =>
        /\ Len(cEnc) = Len(cBody)
        /\ \A i \in 0..(Len(cBody) - 1) :
              cEnc[i + 1] = BitXor(BitXor(cBody[i + 1],
                                          StreamTable[(cKey + i) % 8]),
                                   cKey)

\* a body of the largest length has been encrypted with identifier 6, so
\* that the table index wraps from 7 to 0 inside the body
C31_Witness ==
    /\ cPc = "encrypted"
    /\ cKey = 6
    /\ Len(cBody) = MaxBodyLen
    /\ cBody[1] = 255

----------------------------------------------------------------------------
(* Registration after a settled request (checked under Spec)               *)

\* C32: a waitForResponse call for a key whose earlier requests are all
\* resolved or rejected returns a new pending promise, not an earlier one.
C32_FreshAfterSettled ==
    [][ \A k \in Keys :
          (/\ CallWaitForResponse(k)
           /\ \E q \in DOMAIN promises : KeyOf(promises[q]) = k
           /\ \A q \in DOMAIN promises :
                 KeyOf(promises[q]) = k => promises[q].state # "pending")
            => /\ ~ret'.joined
               /\ promises'[ret'.p].state = "pending" ]_vars

\* waitForResponse lines 349-351: promise.finally(() => clearTimeout(...))
\* makes a second promise that settles as promise p does (the callback
\* does not throw); nothing is attached to it
FinallyPromise(prom, p) ==
    [state |-> prom[p].state, err |-> prom[p].err, handlers |-> 0]

\* a rejected promise with no rejection handler: the runtime reports an
\* unhandled rejection
UnhandledRejection(d) == d.state = "rejected" /\ d.handlers = 0

\* C39: no rejection of a pending request leaves a rejected promise that
\* nothing handles; the promise of the timer clean-up is none.
C39_NoUnhandledRejection ==
    \A p \in DOMAIN promises :
        ~UnhandledRejection(FinallyPromise(promises, p))

----------------------------------------------------------------------------
(* Host.send and Host.login: the two promises used as mutexes              *)

\* concurrent callers of send() and login(); mutex promises that may exist
\* when a call is made
NumSenders == 2
MaxMutexPromises == 3

Senders == 1..NumSenders

IdleCaller ==
    [pc |-> "idle", via |-> "none", awaits |-> 0, own |-> 0, lown |-> 0]

\* mutant of NeedsLogin: the lease is not looked at
NeedsLoginTokenOnly(tok, ls) == ~tok

\* send(): !this.token || !this.leaseTime || this.leaseTime <= new Date()
NeedsLogin(tok, ls) == ~tok \/ ls \in {"none", "expired"}

\* login(): this.token && this.leaseTime &&
\* this.leaseTime > new Date(Date.now() + 300000)
AlreadyLoggedIn(tok, ls) == tok /\ ls = "fresh"

\* mutant of Released: a call that throws leaves its mutex promise pending
ReleasedUnlessThrown(resolved, own, thrown) ==
    IF thrown THEN resolved ELSE resolved \cup {own}

\* finally { releaseMutex() }: the call's own promise is resolved, whether
\* the call returns or throws
Released(resolved, own, thrown) == resolved \cup {own}

\* what the device answers to a Login request: a token with a lease of
\* more than five minutes, a token with a shorter lease, code 1, another
\* failure, a success answer without a token
LoginAnswers == {"ok", "okShort", "code1", "failed", "noToken"}

\* what the device answers to an API request: success; the HTML pages
\* 'please login first' and 'invalid user'; JSON with code 1; JSON with
\* another code; an HTTP error status; an empty array
ApiAnswers ==
    {"ok", "htmlLogin", "htmlCred", "jsonCode1", "jsonOther", "httpError",
     "noData"}

\* the error send() throws for an API answer
ApiError(answer) ==
    CASE answer = "ok" -> "none"
      [] answer = "htmlLogin" -> "LoginError"
      [] answer = "htmlCred" -> "CredentialsInvalidError"
      [] answer = "jsonCode1" -> "CredentialsInvalidError"
      [] answer = "jsonOther" -> "ApiError"
      [] answer = "httpError" -> "ApiError"
      [] answer = "noData" -> "NoDataError"

\* the error login() throws for a Login answer
LoginFailure(answer) ==
    CASE answer \in {"ok", "okShort"} -> "none"
      [] answer = "code1" -> "CredentialsInvalidError"
      [] answer \in {"failed", "noToken"} -> "LoginError"

\* send(): the API answers that make it clear token and lease (the HTML
\* branch, lines 659-675)
ClearsSession(answer) == answer \in {"htmlLogin", "htmlCred"}

InitSend ==
    /\ sendMutex = 0 /\ sendResolved = {0} /\ sendCount = 0
    /\ loginMutex = 0 /\ mutexResolved = {0} /\ mutexCount = 0
    /\ token = FALSE /\ lease = "none"
    /\ posts = <<>>
    /\ caller = [c \in Senders |-> IdleCaller]
    /\ ProtoIdle /\ FramerIdle /\ CipherIdle
    /\ LogoutIdle /\ FmtIdle /\ CacheIdle /\ BatchIdle /\ VerIdle

sendRest ==
    <<protoVars, framerVars, cipherVars, logoutVars, fmtVars, cacheVars,
      batchVars, verVars>>

\* a caller whose awaited promise is resolved resumes before any I/O event
SendResumable(c) ==
    \/ caller[c].pc = "awaitSend" /\ caller[c].awaits \in sendResolved
    \/ caller[c].pc = "awaitLogin" /\ caller[c].awaits \in mutexResolved

\* the mutex promises the calls made so far have created or will create
PromisesMade ==
    sendCount + mutexCount
    + Cardinality({c \in Senders : caller[c].pc \in {"awaitSend",
                                                     "awaitLogin"}})

\* the API request caller c posts, with the session as it is then
ApiPost(c, tok, ls, relogin) ==
    [c |-> c, cmd |-> "api", token |-> tok, lease |-> ls,
     relogin |-> relogin]

\* the end of a call of caller c: what it threw ("none": it returned) and
\* the mutex promises it had created
CallEnd(c, err, lown) ==
    [c |-> c, cmd |-> "end", via |-> caller[c].via, err |-> err,
     own |-> caller[c].own, lown |-> lown]

\* send() up to its first await: await this.sendMutex
CallSend(c) ==
    /\ caller[c].pc = "idle"
    /\ PromisesMade < MaxMutexPromises
    /\ caller' = [caller EXCEPT ![c] = [IdleCaller EXCEPT
                      !.pc = "awaitSend", !.via = "send",
                      !.awaits = sendMutex]]
    /\ UNCHANGED <<sendMutex, sendResolved, sendCount, loginMutex,
                   mutexResolved, mutexCount, token, lease, sendRest>>
    /\ posts' = <<>>

\* login() called from outside send(), up to await this.loginMutex
CallLoginDirect(c) ==
    /\ caller[c].pc = "idle"
    /\ PromisesMade < MaxMutexPromises
    /\ caller' = [caller EXCEPT ![c] = [IdleCaller EXCEPT
                      !.pc = "awaitLogin", !.via = "login",
                      !.awaits = loginMutex]]
    /\ UNCHANGED <<sendMutex, sendResolved, sendCount, loginMutex,
                   mutexResolved, mutexCount, token, lease, sendRest>>
    /\ posts' = <<>>

\* send() from the awaited mutex to its next await: a new promise replaces
\* this.sendMutex; without a valid session login() is called and runs up
\* to await this.loginMutex; otherwise the API request is posted
SendResume(c) ==
    /\ caller[c].pc = "awaitSend"
    /\ caller[c].awaits \in sendResolved
    /\ sendCount' = sendCount + 1
    /\ sendMutex' = sendCount + 1
    /\ IF NeedsLogin(token, lease)
       THEN /\ caller' = [caller EXCEPT ![c] = [@ EXCEPT
                             !.pc = "awaitLogin", !.awaits = loginMutex,
                             !.own = sendCount + 1]]
            /\ posts' = <<>>
       ELSE /\ caller' = [caller EXCEPT ![c] = [@ EXCEPT
                             !.pc = "posting", !.awaits = 0,
                             !.own = sendCount + 1]]
            /\ posts' = <<ApiPost(c, token, lease, FALSE)>>
    /\ UNCHANGED <<sendResolved, loginMutex, mutexResolved, mutexCount,
                   token, lease, sendRest>>

\* login() from the awaited mutex to its next await: a new promise
\* replaces this.loginMutex; with a session that lasts five minutes more
\* the call returns (and send() posts its request); otherwise the Login
\* request is posted
SendLoginResume(c) ==
    /\ caller[c].pc = "awaitLogin"
    /\ caller[c].awaits \in mutexResolved
    /\ mutexCount' = mutexCount + 1
    /\ loginMutex' = mutexCount + 1
    /\ IF AlreadyLoggedIn(token, lease)
       THEN /\ mutexResolved'
                 = Released(mutexResolved, mutexCount + 1, FALSE)
            /\ IF caller[c].via = "login"
               THEN /\ caller' = [caller EXCEPT ![c] = IdleCaller]
                    /\ posts' = <<CallEnd(c, "none", mutexCount + 1)>>
               ELSE /\ caller' = [caller EXCEPT ![c] = [@ EXCEPT
                                     !.pc = "posting", !.awaits = 0,
                                     !.lown = mutexCount + 1]]
                    /\ posts' = <<ApiPost(c, token, lease, TRUE)>>
       ELSE /\ mutexResolved' = mutexResolved
            /\ caller' = [caller EXCEPT ![c] = [@ EXCEPT
                             !.pc = "loginPosting", !.awaits = 0,
                             !.lown = mutexCount + 1]]
            /\ posts' = <<[c |-> c, cmd |-> "Login",
                                       token |-> token, lease |-> lease,
                                       relogin |-> FALSE]>>
    /\ UNCHANGED <<sendMutex, sendResolved, sendCount, token, lease,
                   sendRest>>
\* the answer to the Login request of caller c arrives: login() stores
\* token and lease or throws, and releases its mutex; send() then posts its
\* request, or throws with login()'s error and releases its own mutex
LoginAnswer(c, answer) ==
    /\ caller[c].pc = "loginPosting"
    /\ \A d \in Senders : ~SendResumable(d)
    /\ LET thrown == LoginFailure(answer) # "none"
           tok == IF answer \in {"ok", "okShort"} THEN TRUE
                  ELSE IF answer = "noToken" THEN FALSE ELSE token
           ls == IF answer = "ok" THEN "fresh"
                 ELSE IF answer = "okShort" THEN "soon" ELSE lease
       IN /\ token' = tok
          /\ lease' = ls
          /\ mutexResolved' = Released(mutexResolved, caller[c].lown, thrown)
          /\ IF thrown \/ caller[c].via = "login"
             THEN /\ caller' = [caller EXCEPT ![c] = IdleCaller]
                  /\ sendResolved'
                       = (IF caller[c].via = "send"
                          THEN Released(sendResolved, caller[c].own, TRUE)
                          ELSE sendResolved)
                  /\ posts' = <<CallEnd(c, LoginFailure(answer),
                                        caller[c].lown)>>
             ELSE /\ sendResolved' = sendResolved
                  /\ caller' = [caller EXCEPT ![c].pc = "posting"]
                  /\ posts' = <<ApiPost(c, tok, ls, TRUE)>>
    /\ UNCHANGED <<sendMutex, sendCount, loginMutex, mutexCount, sendRest>>

\* the answer to the API request of caller c arrives: send() returns the
\* data or throws, clearing token and lease for the HTML login errors, and
\* releases its mutex
ApiAnswer(c, answer) ==
    /\ caller[c].pc = "posting"
    /\ \A d \in Senders : ~SendResumable(d)
    /\ IF ClearsSession(answer)
       THEN token' = FALSE /\ lease' = "none"
       ELSE token' = token /\ lease' = lease
    /\ sendResolved' = Released(sendResolved, caller[c].own,
                                ApiError(answer) # "none")
    /\ caller' = [caller EXCEPT ![c] = IdleCaller]
    /\ posts' = <<CallEnd(c, ApiError(answer), caller[c].lown)>>
    /\ UNCHANGED <<sendMutex, sendCount, loginMutex, mutexResolved,
                   mutexCount, sendRest>>

\* time passes: the lease has less than five minutes left, then none
LeaseAges ==
    /\ lease \in {"fresh", "soon"}
    /\ \A d \in Senders : ~SendResumable(d)
    /\ lease' = IF lease = "fresh" THEN "soon" ELSE "expired"
    /\ UNCHANGED <<sendMutex, sendResolved, sendCount, loginMutex,
                   mutexResolved, mutexCount, token, caller, sendRest>>
    /\ posts' = <<>>

NextSend ==
    \/ \E c \in Senders : CallSend(c)
    \/ \E c \in Senders : CallLoginDirect(c)
    \/ \E c \in Senders : SendResume(c)
    \/ \E c \in Senders : SendLoginResume(c)
    \/ \E c \in Senders, answer \in LoginAnswers : LoginAnswer(c, answer)
    \/ \E c \in Senders, answer \in ApiAnswers : ApiAnswer(c, answer)
    \/ LeaseAges

SpecSend == InitSend /\ [][NextSend]_vars

\* a resumed continuation runs, and every HTTP request is answered
SpecSendFair ==
    /\ SpecSend
    /\ \A c \in Senders :
          /\ WF_vars(SendResume(c))
          /\ WF_vars(SendLoginResume(c))
          /\ WF_vars(\E answer \in LoginAnswers : LoginAnswer(c, answer))
          /\ WF_vars(\E answer \in ApiAnswers : ApiAnswer(c, answer))

\* C33: when send() throws LoginError or CredentialsInvalidError for the
\* answer to its API request, token and lease are cleared.
C33_AuthErrorClearsSession ==
    [][ \A i \in DOMAIN posts' :
          (/\ posts'[i].cmd = "end"
           /\ caller[posts'[i].c].pc = "posting"
           /\ posts'[i].err \in {"LoginError", "CredentialsInvalidError"})
            => token' = FALSE /\ lease' = "none" ]_vars

\* C34: every API request send() posts carries a token whose lease has not
\* expired; a send() that found no valid session goes through login()
\* first; and a send() whose login() failed throws and posts nothing.
C34_NoPostWithoutSession ==
    [][ /\ \A i \in DOMAIN posts' :
              posts'[i].cmd = "api" =>
                  /\ posts'[i].token /\ posts'[i].lease \in {"fresh", "soon"}
                  /\ posts'[i] = ApiPost(posts'[i].c, token', lease',
                                         caller[posts'[i].c].pc # "awaitSend")
        /\ \A c \in Senders :
              (/\ caller[c].pc = "awaitSend"
               /\ caller'[c].pc # "awaitSend"
               /\ NeedsLogin(token, lease))
                => caller'[c].pc = "awaitLogin" /\ posts' = <<>>
        /\ \A c \in Senders, answer \in LoginAnswers :
              (/\ LoginAnswer(c, answer)
               /\ LoginFailure(answer) # "none")
                => posts' = <<CallEnd(c, LoginFailure(answer),
                                      caller[c].lown)>> ]_vars

\* send() found no valid session, logged in, was given a lease of less
\* than five minutes and has posted its request
C34_Witness ==
    /\ posts # <<>>
    /\ posts[1].cmd = "api" /\ posts[1].relogin
    /\ posts[1].lease = "soon"
    /\ caller[posts[1].c].lown # 0

\* caller c is between acquiring and releasing the send mutex
InSendSection(c) ==
    /\ caller[c].via = "send"
    /\ caller[c].pc \in {"awaitLogin", "loginPosting", "posting"}

\* C35: at most one caller of send() is between acquiring and releasing
\* the send mutex at any time.
C35_SendSerialized ==
    Cardinality({c \in Senders : InSendSection(c)}) <= 1

\* C36: a call that ends, by returning or by throwing, has resolved the
\* mutex promises it created, and every call ends, so that every caller
\* waiting on a mutex proceeds.
C36_MutexReleased ==
    /\ [](\A i \in DOMAIN posts :
             posts[i].cmd = "end" =>
                 /\ posts[i].own # 0 => posts[i].own \in sendResolved
                 /\ posts[i].lown # 0 => posts[i].lown \in mutexResolved)
    /\ \A c \in Senders : (caller[c].pc # "idle") ~> (caller[c].pc = "idle")

\* a send() has ended with the error its login() threw, and another caller
\* is waiting on the send mutex promise that call had created
C36_Witness ==
    /\ posts # <<>>
    /\ posts[1].cmd = "end" /\ posts[1].via = "send"
    /\ posts[1].err = "LoginError" /\ posts[1].lown # 0
    /\ \E d \in Senders :
          caller[d].pc = "awaitSend" /\ caller[d].awaits = posts[1].own

----------------------------------------------------------------------------
(* SoftwareVersion (baichuan/tcp-protocol.ts)                              *)

\* largest version number, latest build date
MaxVersionPart == 1
MaxDate == 2

\* DEFAULT_VERSION_DATE.getTime(), dates counted from it
DEFAULT_VERSION_DATE == 0

\* the versions the constructor builds: four numbers and a date, the
\* default date when the string has none
Versions ==
    [major : 0..MaxVersionPart, middle : 0..MaxVersionPart,
     minor : 0..MaxVersionPart, build : 0..MaxVersionPart,
     date : DEFAULT_VERSION_DATE..MaxDate]

\* hasNewerDateThan(target)
HasNewerDateThan(self, target) ==
    IF self.date = DEFAULT_VERSION_DATE \/ target.date = DEFAULT_VERSION_DATE
    THEN FALSE
    ELSE self.date > target.date

\* isGreaterThan(target)
IsGreaterThan(self, target) ==
    IF HasNewerDateThan(self, target) THEN TRUE
    ELSE \/ self.major > target.major
         \/ self.major = target.major /\ self.middle > target.middle
         \/ /\ self.major = target.major /\ self.middle = target.middle
            /\ self.minor > target.minor
         \/ /\ self.major = target.major /\ self.middle = target.middle
            /\ self.minor = target.minor /\ self.build > target.build

InitVersion ==
    /\ verA \in Versions /\ verB \in Versions
    /\ verOut = <<>>
    /\ ProtoIdle /\ FramerIdle /\ CipherIdle /\ LoginIdle
    /\ LogoutIdle /\ FmtIdle /\ CacheIdle /\ BatchIdle /\ SendIdle

\* a.isGreaterThan(b) ("ab") or b.isGreaterThan(a) ("ba") is called and
\* its result kept
CallIsGreaterThan(which) ==
    /\ which \notin DOMAIN verOut
    /\ verOut' = [k \in DOMAIN verOut \cup {which} |->
                    IF k # which THEN verOut[k]
                    ELSE IF which = "ab" THEN IsGreaterThan(verA, verB)
                    ELSE IsGreaterThan(verB, verA)]
    /\ UNCHANGED <<verA, verB, protoVars, framerVars, cipherVars, loginVars,
                   logoutVars, fmtVars, cacheVars, batchVars, sendVars>>

NextVersion == \E which \in {"ab", "ba"} : CallIsGreaterThan(which)

SpecVersion == InitVersion /\ [][NextVersion]_vars

\* C40: for no two versions a and b do a.isGreaterThan(b) and
\* b.isGreaterThan(a) both return true.
C40_Antisymmetric ==
    DOMAIN verOut = {"ab", "ba"} => ~(verOut["ab"] /\ verOut["ba"])

====
